---- MODULE Spec2Model ----
(***************************************************************************)
(* Verification model of the chess_transfer analysis core                  *)
(* (src/src/chess_tools/analysis/engine.py): the moment classifier         *)
(* classify_moment, the tactic classifier classify_tactic and the per-game *)
(* driver ChessAnalyzer.analyze_game.                                      *)
(*                                                                         *)
(* Optional values (Python None) are sequences: <<>> is None and <<v>> is  *)
(* the value v.                                                            *)
(***************************************************************************)
EXTENDS Integers, Sequences, FiniteSets, TLC

VARIABLES
    cm,                \* one call of classify_moment: arguments and result
    ct,                \* one call of classify_tactic: arguments and result
    game,              \* analyze_game: the parsed PGN (or its absence)
    hero_username,     \* analyze_game: the hero_username argument
    engine,            \* self.engine: TRUE when an engine is attached
    pc,                \* analyze_game: position in the function
    metadata,          \* analyze_game: the metadata dict
    hero_color,        \* analyze_game: None, or the hero's colour
    half_move_num,     \* analyze_game: plies entered so far
    info_before,       \* reply of the pre-move engine query of this ply
    cur,               \* locals of the loop body of the ply just processed
    moments,           \* analyze_game: list of CrucialMoment
    move_evals,        \* analyze_game: the evaluation trace
    moment_half_moves, \* analyze_game: half_move_number -> index in moments
    queries,           \* engine queries issued so far, in order
    im,                \* one call of import_game_to_lichess
    sy                 \* runs of run_sync_pipeline and the history file

cmVars == <<cm>>
ctVars == <<ct>>
driverVars == <<game, hero_username, engine, pc, metadata, hero_color,
                half_move_num, info_before, cur, moments, move_evals,
                moment_half_moves, queries>>
transferVars == <<im, sy>>
vars == <<cm, ct, game, hero_username, engine, pc, metadata, hero_color,
          half_move_num, info_before, cur, moments, move_evals,
          moment_half_moves, queries, im, sy>>

(***************************************************************************)
(* Module constants of engine.py.                                          *)
(***************************************************************************)
MATE_SCORE_CP == 10000
BLUNDER_CP == 200
DECIDED_POSITION_CP == 500
MISSED_CHANCE_CP == 200
WINNING_THRESHOLD == 200
MISSED_MATE_MOVES == 5
SEVERITY_CRITICAL_CP == 500
SEVERITY_MAJOR_CP == 300

(***************************************************************************)
(* Bounds of the input spaces.                                             *)
(***************************************************************************)
\* classify_moment evaluations are k*100 + d, |k| <= MaxHundreds, d in -1..1
MaxHundreds == 6
\* mate distances handed to classify_moment range over -1..MaxMateIn
MaxMateIn == 6
\* analyze_game is run on games of 0..MaxPlies mainline plies
MaxPlies == 2
\* refutation lines handed to classify_tactic hold at most MaxPvLen moves
MaxPvLen == 3
\* mate distances handed to classify_tactic range over -1..MaxMateDist
MaxMateDist == 12

None == <<>>
Some(v) == <<v>>
IsNone(o) == o = <<>>
Val(o) == o[1]

\* Python abs() and min()
abs(n) == IF n < 0 THEN -n ELSE n
min(a, b) == IF a < b THEN a ELSE b

(***************************************************************************)
(* _compute_severity and classify_moment.                                  *)
(***************************************************************************)
compute_severity_signed(eval_swing) ==
    IF eval_swing >= SEVERITY_CRITICAL_CP THEN "critical"
    ELSE IF eval_swing >= SEVERITY_MAJOR_CP THEN "major"
    ELSE "minor"

_compute_severity(eval_swing) ==
    LET magnitude == abs(eval_swing)
    IN  IF magnitude >= SEVERITY_CRITICAL_CP THEN "critical"
        ELSE IF magnitude >= SEVERITY_MAJOR_CP THEN "major"
        ELSE "minor"

\* classify_moment with the blunder swing test strict (swing > BLUNDER_CP).
classify_moment_swing_gt(best_eval, played_eval, best_mate_in, played_mate_in) ==
    LET swing == best_eval - played_eval
    IN  IF /\ ~IsNone(best_mate_in)
           /\ Val(best_mate_in) <= MISSED_MATE_MOVES
           /\ Val(best_mate_in) > 0
           /\ IsNone(played_mate_in)
        THEN <<"missed_mate", _compute_severity(swing)>>
        ELSE IF swing > BLUNDER_CP /\ played_eval < -100
        THEN <<"blunder", _compute_severity(swing)>>
        ELSE IF /\ swing >= MISSED_CHANCE_CP
                /\ best_eval >= WINNING_THRESHOLD
                /\ played_eval >= -100
        THEN <<"missed_chance", _compute_severity(swing)>>
        ELSE None

\* classify_moment with the winning threshold strict (best_eval > 200).
classify_moment_winning_gt(best_eval, played_eval, best_mate_in, played_mate_in) ==
    LET swing == best_eval - played_eval
    IN  IF /\ ~IsNone(best_mate_in)
           /\ Val(best_mate_in) <= MISSED_MATE_MOVES
           /\ Val(best_mate_in) > 0
           /\ IsNone(played_mate_in)
        THEN <<"missed_mate", _compute_severity(swing)>>
        ELSE IF swing >= BLUNDER_CP /\ played_eval < -100
        THEN <<"blunder", _compute_severity(swing)>>
        ELSE IF /\ swing >= MISSED_CHANCE_CP
                /\ best_eval > WINNING_THRESHOLD
                /\ played_eval >= -100
        THEN <<"missed_chance", _compute_severity(swing)>>
        ELSE None

\* Returns None (<<>>) or the pair <<moment_type, severity>>.
classify_moment(best_eval, played_eval, best_mate_in, played_mate_in) ==
    LET swing == best_eval - played_eval
    IN  IF /\ ~IsNone(best_mate_in)
           /\ Val(best_mate_in) <= MISSED_MATE_MOVES
           /\ Val(best_mate_in) > 0
           /\ IsNone(played_mate_in)
        THEN <<"missed_mate", _compute_severity(swing)>>
        ELSE IF swing >= BLUNDER_CP /\ played_eval < -100
        THEN <<"blunder", _compute_severity(swing)>>
        ELSE IF /\ swing >= MISSED_CHANCE_CP
                /\ best_eval >= WINNING_THRESHOLD
                /\ played_eval >= -100
        THEN <<"missed_chance", _compute_severity(swing)>>
        ELSE None

CmIdle == [called |-> FALSE, best_eval |-> 0, played_eval |-> 0,
           best_mate_in |-> None, played_mate_in |-> None, result |-> None]

\* no call of classify_tactic is under way
CtIdle == [called |-> FALSE, result |-> "", scenario |-> "",
           board_after |-> <<>>, refutation_pv |-> <<>>, mate_in |-> None,
           mover_color |-> TRUE, board_before |-> None, on_return |-> <<>>]

\* no call of import_game_to_lichess and no sync run
ImIdle == [pc |-> "idle", log |-> <<>>, status |-> "", result |-> ""]
SyIdle == [pc |-> "idle"]
TransferIdle == im = ImIdle /\ sy = SyIdle

(***************************************************************************)
(* Engine scores (chess.engine.Score as engine.py uses it).  A score is    *)
(* Cp(v), Mate(n) (n > 0: the side mates in n, n < 0: it is mated in -n,   *)
(* n = 0: it is checkmated) or MateGiven (the negation of Mate(0)).  An    *)
(* info record carries the score relative to the side to move (turn) and   *)
(* the "pv" entry: None when the key is absent, Some(n) for a list of n    *)
(* moves.                                                                  *)
(***************************************************************************)
WHITE == TRUE
BLACK == FALSE

Cp(v) == [k |-> "cp", v |-> v]
Mate(n) == [k |-> "mate", v |-> n]
MateGiven == [k |-> "mate_given", v |-> 0]

\* Score.__neg__
Neg(s) ==
    IF s.k = "cp" THEN Cp(-s.v)
    ELSE IF s.k = "mate_given" THEN Mate(0)
    ELSE IF s.v = 0 THEN MateGiven
    ELSE Mate(-s.v)

is_mate(s) == s.k # "cp"
\* Score.mate(): only read where is_mate holds
mate(s) == s.v
\* PovScore.pov(color), PovScore.white()
pov(info, color) == IF color = info.turn THEN info.relative ELSE Neg(info.relative)
white(info) == pov(info, WHITE)

_score_to_cp(score) ==
    IF is_mate(score)
    THEN IF mate(score) > 0 THEN MATE_SCORE_CP ELSE -MATE_SCORE_CP
    ELSE score.v

(***************************************************************************)
(* Positions (chess.Board as engine.py uses it).  A square is 0..63 with   *)
(* file = sq % 8 and rank = sq \div 8 (a1 = 0, h8 = 63).  A board is the   *)
(* piece on every square, the side to move and the en-passant square.      *)
(* Castling is outside the model: every position has no castling rights.   *)
(***************************************************************************)
PAWN == "pawn"
KNIGHT == "knight"
BISHOP == "bishop"
ROOK == "rook"
QUEEN == "queen"
KING == "king"

Squares == 0..63
square_file(sq) == sq % 8
square_rank(sq) == sq \div 8
square(f, r) == r * 8 + f

NoPiece == [color |-> FALSE, piece_type |-> "none"]
Piece(color, pt) == [color |-> color, piece_type |-> pt]

piece_at(board, sq) == board.at[sq]
occupied(board, sq) == board.at[sq].piece_type # "none"
\* board.pieces(piece_type, color)
pieces(board, pt, color) ==
    {sq \in Squares : board.at[sq].piece_type = pt /\ board.at[sq].color = color}
\* board.king(color): the highest king square of that colour, or None
king(board, color) ==
    LET ks == pieces(board, KING, color)
    IN  IF ks = {} THEN None
        ELSE Some(CHOOSE k \in ks : \A o \in ks : o <= k)

step_of(d) == IF d > 0 THEN 1 ELSE IF d < 0 THEN -1 ELSE 0

\* the squares strictly between two squares of one rank, file or diagonal
\* (chess.between); empty when they are not aligned
lib_between(s, t) ==
    LET df == square_file(t) - square_file(s)
        dr == square_rank(t) - square_rank(s)
        n == IF abs(df) > abs(dr) THEN abs(df) ELSE abs(dr)
    IN  IF (df # 0 /\ dr # 0 /\ abs(df) # abs(dr)) \/ n = 0 THEN {}
        ELSE {square(square_file(s) + k * step_of(df),
                     square_rank(s) + k * step_of(dr)) : k \in 1..(n - 1)}

\* the piece on s attacks square t (chess.Board.attacks)
attacks(board, s, t) ==
    LET p == board.at[s]
        df == square_file(t) - square_file(s)
        dr == square_rank(t) - square_rank(s)
        clear == \A x \in lib_between(s, t) : ~occupied(board, x)
        straight == (df = 0) # (dr = 0)
        diagonal == abs(df) = abs(dr) /\ df # 0
    IN  CASE p.piece_type = PAWN ->
                abs(df) = 1 /\ dr = (IF p.color = WHITE THEN 1 ELSE -1)
          [] p.piece_type = KNIGHT ->
                (abs(df) = 1 /\ abs(dr) = 2) \/ (abs(df) = 2 /\ abs(dr) = 1)
          [] p.piece_type = KING ->
                abs(df) <= 1 /\ abs(dr) <= 1 /\ s # t
          [] p.piece_type = BISHOP -> diagonal /\ clear
          [] p.piece_type = ROOK -> straight /\ clear
          [] p.piece_type = QUEEN -> (straight \/ diagonal) /\ clear
          [] OTHER -> FALSE

\* board.attackers(color, square)
attackers(board, color, sq) ==
    {s \in Squares : /\ occupied(board, s)
                     /\ board.at[s].color = color
                     /\ attacks(board, s, sq)}
is_attacked_by(board, color, sq) ==
    \E s \in Squares : /\ occupied(board, s)
                       /\ board.at[s].color = color
                       /\ attacks(board, s, sq)

\* board.is_check()
is_check(board) ==
    LET k == king(board, board.turn)
    IN  ~IsNone(k) /\ is_attacked_by(board, ~board.turn, Val(k))

\* board.is_pinned(color, square): an enemy slider stands on a line through
\* the king and the square, with nothing but the square between them
is_pinned(board, color, sq) ==
    LET k == king(board, color)
    IN  /\ ~IsNone(k)
        /\ \E sniper \in Squares :
              LET p == board.at[sniper]
                  df == square_file(sniper) - square_file(Val(k))
                  dr == square_rank(sniper) - square_rank(Val(k))
                  straight == (df = 0) # (dr = 0)
                  diagonal == abs(df) = abs(dr) /\ df # 0
              IN  /\ p.color = ~color
                  /\ \/ p.piece_type \in {ROOK, QUEEN} /\ straight
                     \/ p.piece_type \in {BISHOP, QUEEN} /\ diagonal
                  /\ sq \in lib_between(sniper, Val(k))
                  /\ \A x \in lib_between(sniper, Val(k)) \ {sq} : ~occupied(board, x)

Move(from, to) == [from_square |-> from, to_square |-> to, promotion |-> None]
Promote(from, to, pt) == [from_square |-> from, to_square |-> to, promotion |-> Some(pt)]

\* board.is_en_passant(move)
is_en_passant(board, move) ==
    /\ board.ep_square = Some(move.to_square)
    /\ board.at[move.from_square].piece_type = PAWN
    /\ abs(move.to_square - move.from_square) \in {7, 9}
    /\ ~occupied(board, move.to_square)

\* board.is_capture(move)
is_capture(board, move) ==
    \/ /\ move.from_square # move.to_square
       /\ \E x \in {move.from_square, move.to_square} :
             occupied(board, x) /\ board.at[x].color = ~board.turn
    \/ is_en_passant(board, move)

\* board.push(move) raises (AssertionError) when no piece stands on the
\* from-square
can_push(board, move) == occupied(board, move.from_square)

\* board.push(move) on a copy: the board after the move
push(board, move) ==
    LET p == board.at[move.from_square]
        from == move.from_square
        to == move.to_square
        diff == to - from
        is_pawn == p.piece_type = PAWN
        ep_capture == /\ is_pawn
                      /\ ~(diff = 16 /\ square_rank(from) = 1)
                      /\ ~(diff = -16 /\ square_rank(from) = 6)
                      /\ board.ep_square = Some(to)
                      /\ abs(diff) \in {7, 9}
                      /\ ~occupied(board, to)
        capture_square == IF ep_capture
                          THEN to + (IF board.turn = WHITE THEN -8 ELSE 8)
                          ELSE to
        placed == Piece(board.turn,
                        IF IsNone(move.promotion) THEN p.piece_type
                        ELSE Val(move.promotion))
    IN  [at |-> [x \in Squares |->
                    IF x = to THEN placed
                    ELSE IF x = from \/ x = capture_square THEN NoPiece
                    ELSE board.at[x]],
         turn |-> ~board.turn,
         ep_square |-> IF is_pawn /\ diff = 16 /\ square_rank(from) = 1
                       THEN Some(from + 8)
                       ELSE IF is_pawn /\ diff = -16 /\ square_rank(from) = 6
                       THEN Some(from - 8)
                       ELSE None]

\* the pseudo-legal moves of the piece on `from` (no castling)
pseudo_legal_from(board, from) ==
    LET p == board.at[from]
        f == square_file(from)
        r == square_rank(from)
        up == IF p.color = WHITE THEN 1 ELSE -1
        last == IF p.color = WHITE THEN 7 ELSE 0
        home == IF p.color = WHITE THEN 1 ELSE 6
        with_promotions(to) ==
            IF square_rank(to) = last
            THEN {Promote(from, to, pt) : pt \in {QUEEN, ROOK, BISHOP, KNIGHT}}
            ELSE {Move(from, to)}
        one == square(f, r + up)
        two == square(f, r + 2 * up)
        pushes == IF r + up \in 0..7 /\ ~occupied(board, one)
                  THEN with_promotions(one)
                         \cup (IF r = home /\ ~occupied(board, two)
                               THEN {Move(from, two)} ELSE {})
                  ELSE {}
        takes == UNION {with_promotions(t) :
                        t \in {x \in Squares : /\ attacks(board, from, x)
                                               /\ occupied(board, x)
                                               /\ board.at[x].color # p.color}}
        ep == {Move(from, t) : t \in {x \in Squares :
                    /\ board.ep_square = Some(x)
                    /\ ~occupied(board, x)
                    /\ attacks(board, from, x)
                    /\ r = (IF p.color = WHITE THEN 4 ELSE 3)}}
    IN  IF p.piece_type = PAWN THEN pushes \cup takes \cup ep
        ELSE {Move(from, t) : t \in {x \in Squares :
                    /\ attacks(board, from, x)
                    /\ ~(occupied(board, x) /\ board.at[x].color = p.color)}}

\* a pseudo-legal move is legal when it does not leave the mover's king
\* attacked
is_safe(board, move) ==
    LET after == push(board, move)
        k == king(after, board.turn)
    IN  IsNone(k) \/ ~is_attacked_by(after, ~board.turn, Val(k))

\* the legal moves of the piece on `from`, for the side to move
legal_moves_from(board, from) ==
    IF occupied(board, from) /\ board.at[from].color = board.turn
    THEN {m \in pseudo_legal_from(board, from) : is_safe(board, m)}
    ELSE {}

\* board.legal_moves
legal_moves(board) == UNION {legal_moves_from(board, from) : from \in Squares}

\* board.is_checkmate()
is_checkmate(board) ==
    /\ is_check(board)
    /\ \A from \in Squares : legal_moves_from(board, from) = {}

(***************************************************************************)
(* The tactic classifier: PIECE_VALUES, _is_back_rank_mate, _ray_between,  *)
(* _find_absolute_pins, _find_relative_pins and classify_tactic.           *)
(***************************************************************************)
PIECE_VALUES(pt) ==
    CASE pt = PAWN -> 1
      [] pt = KNIGHT -> 3
      [] pt = BISHOP -> 3
      [] pt = ROOK -> 5
      [] pt = QUEEN -> 9
      [] pt = KING -> 100
      [] OTHER -> 0

TACTIC_LABELS ==
    {"forced_mate", "back_rank_mate", "skewer", "pin", "discovered_attack",
     "hanging_piece", "hanging_pawn", "losing_exchange", "fork",
     "trapped_piece", "positional", "unknown"}

\* sim.push(m) for every m of the line, on a copy: None as soon as a push
\* raises, else the final position
RECURSIVE replay(_, _, _)
replay(board, line, k) ==
    IF k > Len(line) THEN Some(board)
    ELSE IF ~can_push(board, line[k]) THEN None
    ELSE replay(push(board, line[k]), line, k + 1)

\* the mutant of _is_back_rank_mate: any checkmate counts, whatever the rank
is_back_rank_mate_any_rank(board, mate_pv, mover_color) ==
    LET sim == replay(board, mate_pv, 1)
    IN  ~IsNone(sim) /\ is_checkmate(Val(sim))

_is_back_rank_mate(board, mate_pv, mover_color) ==
    LET sim == replay(board, mate_pv, 1)
    IN  IF IsNone(sim) THEN FALSE
        ELSE IF ~is_checkmate(Val(sim)) THEN FALSE
        ELSE LET loser == mover_color
                 king_sq == king(Val(sim), loser)
             IN  IF IsNone(king_sq) THEN FALSE
                 ELSE LET rank == square_rank(Val(king_sq))
                          back == IF loser = WHITE THEN 0 ELSE 7
                      IN  rank = back

\* None, or Some(list of the squares strictly between sq1 and sq2)
_ray_between(sq1, sq2) ==
    LET f1 == square_file(sq1)
        r1 == square_rank(sq1)
        df == square_file(sq2) - f1
        dr == square_rank(sq2) - r1
        step_f == step_of(df)
        step_r == step_of(dr)
        n == IF abs(df) > abs(dr) THEN abs(df) ELSE abs(dr)
    IN  IF df = 0 /\ dr = 0 THEN None
        ELSE IF df # 0 /\ dr # 0 /\ abs(df) # abs(dr) THEN None
        ELSE Some([k \in 1..(n - 1) |-> square(f1 + k * step_f, r1 + k * step_r)])

\* any(board.piece_at(s) is not None for s in ray)
ray_blocked(board, ray) == \E i \in 1..Len(ray) : occupied(board, ray[i])

\* the "scan behind" loops: the first occupied square met walking from
\* to_sq past front_sq to the edge of the board, or None
scan_behind(board, from_sq, front_sq) ==
    LET step_f == step_of(square_file(front_sq) - square_file(from_sq))
        step_r == step_of(square_rank(front_sq) - square_rank(from_sq))
        on_board(k) == /\ square_file(front_sq) + k * step_f \in 0..7
                       /\ square_rank(front_sq) + k * step_r \in 0..7
        sq_at(k) == square(square_file(front_sq) + k * step_f,
                           square_rank(front_sq) + k * step_r)
        hits == {k \in 1..7 : /\ \A j \in 1..k : on_board(j)
                              /\ occupied(board, sq_at(k))
                              /\ \A j \in 1..(k - 1) : ~occupied(board, sq_at(j))}
    IN  IF hits = {} THEN None ELSE Some(sq_at(CHOOSE k \in hits : TRUE))

_find_absolute_pins(board, color) ==
    UNION {{sq \in pieces(board, pt, color) : is_pinned(board, color, sq)}
              : pt \in {QUEEN, ROOK, BISHOP, KNIGHT, PAWN}}

_find_relative_pins(board, pinner_color, victim_color) ==
    {front_sq \in Squares :
        /\ occupied(board, front_sq)
        /\ board.at[front_sq].color = victim_color
        /\ board.at[front_sq].piece_type \in {PAWN, KNIGHT, BISHOP, ROOK, QUEEN}
        /\ \E slider_sq \in Squares :
              /\ board.at[slider_sq].piece_type \in {BISHOP, ROOK, QUEEN}
              /\ board.at[slider_sq].color = pinner_color
              /\ LET ray == _ray_between(slider_sq, front_sq)
                 IN  /\ ~IsNone(ray)
                     /\ ~ray_blocked(board, Val(ray))
                     /\ LET behind_sq == scan_behind(board, slider_sq, front_sq)
                        IN  /\ ~IsNone(behind_sq)
                            /\ board.at[Val(behind_sq)].color = victim_color
                            /\ PIECE_VALUES(board.at[front_sq].piece_type)
                                  < PIECE_VALUES(board.at[Val(behind_sq)].piece_type)}

\* the mutant of the skewer test: front piece worth at most the back piece
skewer_found_front_le(board_after, board_copy, first_move, mover_color) ==
    LET moved_piece == piece_at(board_after, first_move.from_square)
        to_sq == first_move.to_square
    IN  /\ moved_piece.piece_type \in {BISHOP, ROOK, QUEEN}
        /\ \E target_sq \in Squares :
              /\ board_copy.at[target_sq].piece_type \in {QUEEN, ROOK, BISHOP, KNIGHT}
              /\ board_copy.at[target_sq].color = mover_color
              /\ LET ray == _ray_between(to_sq, target_sq)
                 IN  /\ ~IsNone(ray)
                     /\ ~ray_blocked(board_copy, Val(ray))
                     /\ LET behind_sq == scan_behind(board_copy, to_sq, target_sq)
                        IN  /\ ~IsNone(behind_sq)
                            /\ board_copy.at[Val(behind_sq)].color = mover_color
                            /\ PIECE_VALUES(board_copy.at[target_sq].piece_type)
                                  <= PIECE_VALUES(board_copy.at[Val(behind_sq)].piece_type)
                            /\ PIECE_VALUES(moved_piece.piece_type) >= 5

\* step 2 of classify_tactic
skewer_found(board_after, board_copy, first_move, mover_color) ==
    LET moved_piece == piece_at(board_after, first_move.from_square)
        to_sq == first_move.to_square
    IN  /\ moved_piece.piece_type \in {BISHOP, ROOK, QUEEN}
        /\ \E target_sq \in Squares :
              /\ board_copy.at[target_sq].piece_type \in {QUEEN, ROOK, BISHOP, KNIGHT}
              /\ board_copy.at[target_sq].color = mover_color
              /\ LET ray == _ray_between(to_sq, target_sq)
                 IN  /\ ~IsNone(ray)
                     /\ ~ray_blocked(board_copy, Val(ray))
                     /\ LET behind_sq == scan_behind(board_copy, to_sq, target_sq)
                        IN  /\ ~IsNone(behind_sq)
                            /\ board_copy.at[Val(behind_sq)].color = mover_color
                            /\ PIECE_VALUES(board_copy.at[target_sq].piece_type)
                                  >= PIECE_VALUES(board_copy.at[Val(behind_sq)].piece_type)
                            /\ PIECE_VALUES(moved_piece.piece_type) >= 5

\* step 3 of classify_tactic
pin_found(board_after, board_copy, mover_color, board_before) ==
    LET opp_color == ~mover_color
        ref_board_before == IF IsNone(board_before) THEN board_after
                            ELSE Val(board_before)
        abs_pins_before == _find_absolute_pins(ref_board_before, mover_color)
        abs_pins_after == _find_absolute_pins(board_copy, mover_color)
        rel_pins_before == _find_relative_pins(ref_board_before, opp_color, mover_color)
        rel_pins_after == _find_relative_pins(board_copy, opp_color, mover_color)
    IN  \/ abs_pins_after \ abs_pins_before # {}
        \/ rel_pins_after \ rel_pins_before # {}

\* steps 4a and 4b of classify_tactic
discovered_found(board_after, board_copy, first_move, mover_color) ==
    LET opp_color == ~mover_color
        opp_king_sq == king(board_copy, mover_color)
        checkers == attackers(board_copy, opp_color, Val(opp_king_sq))
    IN  \/ /\ is_check(board_copy)
           /\ ~IsNone(opp_king_sq)
           /\ first_move.to_square \notin checkers
           /\ checkers # {}
        \/ \E hvp_sq \in Squares :
              /\ board_copy.at[hvp_sq].piece_type \in {QUEEN, ROOK}
              /\ board_copy.at[hvp_sq].color = mover_color
              /\ ((attackers(board_copy, opp_color, hvp_sq)
                      \ attackers(board_after, opp_color, hvp_sq))
                    \ {first_move.to_square}) # {}

\* the mutant of the capture test: an equal trade counts as a losing exchange
capture_label_ge(board_after, first_move, mover_color) ==
    LET captured == piece_at(board_after, first_move.to_square)
        has_captured == captured.piece_type # "none"
        attacker_piece == piece_at(board_after, first_move.from_square)
    IN  IF ~is_capture(board_after, first_move) THEN None
        ELSE IF ~has_captured /\ is_en_passant(board_after, first_move)
        THEN Some("hanging_pawn")
        ELSE IF ~has_captured /\ ~IsNone(first_move.promotion)
        THEN Some("hanging_piece")
        ELSE IF has_captured /\ captured.color = mover_color
        THEN IF captured.piece_type = PAWN THEN Some("hanging_pawn")
             ELSE IF /\ is_attacked_by(board_after, mover_color, first_move.to_square)
                     /\ attacker_piece.piece_type # "none"
                     /\ PIECE_VALUES(attacker_piece.piece_type)
                           >= PIECE_VALUES(captured.piece_type)
             THEN Some("losing_exchange")
             ELSE Some("hanging_piece")
        ELSE None

\* steps 5 and 6 of classify_tactic: None when the chain goes on
capture_label(board_after, first_move, mover_color) ==
    LET captured == piece_at(board_after, first_move.to_square)
        has_captured == captured.piece_type # "none"
        attacker_piece == piece_at(board_after, first_move.from_square)
    IN  IF ~is_capture(board_after, first_move) THEN None
        ELSE IF ~has_captured /\ is_en_passant(board_after, first_move)
        THEN Some("hanging_pawn")
        ELSE IF ~has_captured /\ ~IsNone(first_move.promotion)
        THEN Some("hanging_piece")
        ELSE IF has_captured /\ captured.color = mover_color
        THEN IF captured.piece_type = PAWN THEN Some("hanging_pawn")
             ELSE IF /\ is_attacked_by(board_after, mover_color, first_move.to_square)
                     /\ attacker_piece.piece_type # "none"
                     /\ PIECE_VALUES(attacker_piece.piece_type)
                           > PIECE_VALUES(captured.piece_type)
             THEN Some("losing_exchange")
             ELSE Some("hanging_piece")
        ELSE None

\* step 7 of classify_tactic
fork_found(board_after, board_copy, first_move, mover_color) ==
    LET opp_color == ~mover_color
        targets == {QUEEN, ROOK, KNIGHT, BISHOP, KING}
        attacked_now ==
            {sq \in Squares :
                /\ board_copy.at[sq].piece_type \in targets
                /\ board_copy.at[sq].color = mover_color
                /\ first_move.to_square \in attackers(board_copy, opp_color, sq)}
        attacked_before ==
            {sq \in Squares :
                /\ board_after.at[sq].piece_type \in targets
                /\ board_after.at[sq].color = mover_color
                /\ first_move.from_square \in attackers(board_after, opp_color, sq)}
        new_targets == attacked_now \ attacked_before
    IN  Cardinality(attacked_now) >= 2 /\ Cardinality(new_targets) >= 1

\* step 8 of classify_tactic
trapped_found(board_copy, mover_color) ==
    LET opp_color == ~mover_color
    IN  \E sq \in Squares :
           /\ board_copy.at[sq].piece_type \in {QUEEN, ROOK, BISHOP, KNIGHT}
           /\ board_copy.at[sq].color = mover_color
           /\ is_attacked_by(board_copy, opp_color, sq)
           /\ LET piece_val == PIECE_VALUES(board_copy.at[sq].piece_type)
                  has_escape ==
                     \E legal \in legal_moves_from(board_copy, sq) :
                        \/ ~is_attacked_by(push(board_copy, legal), opp_color,
                                           legal.to_square)
                        \/ LET defender_piece == piece_at(board_copy, legal.to_square)
                           IN  /\ defender_piece.piece_type # "none"
                               /\ PIECE_VALUES(defender_piece.piece_type) >= piece_val
              IN  ~has_escape

\* the mutants of the forced-mate test: no limit; positive distances only
mate_in_any(mate_in) == ~IsNone(mate_in)
mate_in_positive_within_limit(mate_in) ==
    ~IsNone(mate_in) /\ Val(mate_in) > 0 /\ Val(mate_in) <= 9

\* mate_in is not None and mate_in <= 9
mate_in_within_limit(mate_in) == ~IsNone(mate_in) /\ Val(mate_in) <= 9

\* The label returned, or "AssertionError" when the unguarded
\* board_copy.push(first_move) raises because no piece stands on the move's
\* from-square: the call then returns no label.
classify_tactic(board_after, refutation_pv, mate_in, mover_color, board_before) ==
    IF mate_in_within_limit(mate_in)
    THEN IF /\ refutation_pv # <<>>
            /\ _is_back_rank_mate(board_after, refutation_pv, mover_color)
         THEN "back_rank_mate"
         ELSE "forced_mate"
    ELSE IF refutation_pv = <<>> THEN "unknown"
    ELSE LET first_move == refutation_pv[1]
         IN  IF ~can_push(board_after, first_move) THEN "AssertionError"
             ELSE LET board_copy == push(board_after, first_move)
                      captured == capture_label(board_after, first_move, mover_color)
                  IN  IF skewer_found(board_after, board_copy, first_move, mover_color)
                      THEN "skewer"
                      ELSE IF pin_found(board_after, board_copy, mover_color, board_before)
                      THEN "pin"
                      ELSE IF discovered_found(board_after, board_copy, first_move,
                                               mover_color)
                      THEN "discovered_attack"
                      ELSE IF ~IsNone(captured) THEN Val(captured)
                      ELSE IF fork_found(board_after, board_copy, first_move, mover_color)
                      THEN "fork"
                      ELSE IF trapped_found(board_copy, mover_color)
                      THEN "trapped_piece"
                      ELSE "positional"

(***************************************************************************)
(* The decided-position mercy filter of analyze_game.                      *)
(***************************************************************************)
\* the filter with >= in place of >
mercy_filter_ge(cp_before, cp_after) ==
    LET is_decided_before == abs(cp_before) >= DECIDED_POSITION_CP
        is_decided_after == abs(cp_after) >= DECIDED_POSITION_CP
        same_result == \/ (cp_before > 0 /\ cp_after > 0)
                       \/ (cp_before < 0 /\ cp_after < 0)
    IN  is_decided_before /\ is_decided_after /\ same_result

\* the filter dropping only plies lost before and after the move
mercy_filter_losing_only(cp_before, cp_after) ==
    LET is_decided_before == abs(cp_before) > DECIDED_POSITION_CP
        is_decided_after == abs(cp_after) > DECIDED_POSITION_CP
        same_result == cp_before < 0 /\ cp_after < 0
    IN  is_decided_before /\ is_decided_after /\ same_result

\* the filter dropping only plies won before and after the move
mercy_filter_winning_only(cp_before, cp_after) ==
    LET is_decided_before == abs(cp_before) > DECIDED_POSITION_CP
        is_decided_after == abs(cp_after) > DECIDED_POSITION_CP
        same_result == cp_before > 0 /\ cp_after > 0
    IN  is_decided_before /\ is_decided_after /\ same_result

mercy_filter(cp_before, cp_after) ==
    LET is_decided_before == abs(cp_before) > DECIDED_POSITION_CP
        is_decided_after == abs(cp_after) > DECIDED_POSITION_CP
        same_result == \/ (cp_before > 0 /\ cp_after > 0)
                       \/ (cp_before < 0 /\ cp_after < 0)
    IN  is_decided_before /\ is_decided_after /\ same_result

(***************************************************************************)
(* Player names are sequences of characters; lower is str.lower().         *)
(***************************************************************************)
lower_char(c) ==
    IF c = "A" THEN "a" ELSE IF c = "B" THEN "b" ELSE c
lower(name) == [i \in 1..Len(name) |-> lower_char(name[i])]

\* determine_hero_color with the two colours exchanged
determine_hero_color_swapped(md, username) ==
    IF IsNone(username) \/ Val(username) = <<>> THEN None
    ELSE IF lower(md.White) = lower(Val(username)) THEN Some(BLACK)
    ELSE IF lower(md.Black) = lower(Val(username)) THEN Some(WHITE)
    ELSE None

\* "Determine Hero Color" of analyze_game
determine_hero_color(md, username) ==
    IF IsNone(username) \/ Val(username) = <<>> THEN None
    ELSE IF lower(md.White) = lower(Val(username)) THEN Some(WHITE)
    ELSE IF lower(md.Black) = lower(Val(username)) THEN Some(BLACK)
    ELSE None

(***************************************************************************)
(* Inputs of analyze_game.                                                 *)
(***************************************************************************)
\* reply sets of the engine; scores are relative to the side to move
BeforeScores == {Cp(-501), Cp(-500), Cp(500), Cp(700), Mate(2), Mate(-3)}
AfterScores == {Cp(701), Cp(500), Cp(100), Cp(101), Cp(-100), Cp(-500),
                Cp(-501), Mate(-3), Mate(2), Mate(0)}

BeforeReplies ==
    {[relative |-> s, pv |-> Some(2)] : s \in BeforeScores}
        \cup {[relative |-> Cp(300), pv |-> None],
              [relative |-> Mate(2), pv |-> None],
              [relative |-> Cp(300), pv |-> Some(0)]}
AfterReplies ==
    {[relative |-> s, pv |-> Some(2)] : s \in AfterScores}
        \cup {[relative |-> Cp(701), pv |-> None],
              [relative |-> Cp(701), pv |-> Some(0)]}

WhiteName == <<"A", "b">>
BlackName == <<"b", "a">>
HeroUsernames == {None, Some(<<>>), Some(<<"a", "B">>), Some(<<"B", "A">>),
                  Some(<<"a", "a">>)}

\* a parsed game is its headers and the number of mainline plies; an
\* unparsable or absent game is None
Games ==
    {None} \cup {Some([White |-> WhiteName, Black |-> BlackName, plies |-> n])
                    : n \in 0..MaxPlies}

\* board_before.turn of ply number k (1-based) of a game from the start position
turn_before(k) == IF k % 2 = 1 THEN WHITE ELSE BLACK

NoInfo == [relative |-> Cp(0), turn |-> WHITE, pv |-> None]
NoCur == [mover_color |-> WHITE, cp_before |-> 0, cp_after |-> None,
          outcome |-> "none"]

DriverIdle ==
    /\ game = None
    /\ hero_username = None
    /\ engine = FALSE
    /\ pc = "idle"
    /\ metadata = <<>>
    /\ hero_color = None
    /\ half_move_num = 0
    /\ info_before = NoInfo
    /\ cur = NoCur
    /\ moments = <<>>
    /\ move_evals = <<>>
    /\ moment_half_moves = <<>>
    /\ queries = <<>>

(***************************************************************************)
(* ChessAnalyzer.analyze_game, one action per step of the function.        *)
(***************************************************************************)
Init ==
    /\ cm = CmIdle
    /\ ct = CtIdle
    /\ TransferIdle
    /\ game \in Games
    /\ hero_username \in HeroUsernames
    /\ engine \in BOOLEAN
    /\ pc = "start"
    /\ metadata = <<>>
    /\ hero_color = None
    /\ half_move_num = 0
    /\ info_before = NoInfo
    /\ cur = NoCur
    /\ moments = <<>>
    /\ move_evals = <<>>
    /\ moment_half_moves = <<>>
    /\ queries = <<>>

\* ParseFails letting the parse failure escape as an error
ParseFailsRaising ==
    /\ pc = "start"
    /\ IsNone(game)
    /\ pc' = "raised"
    /\ UNCHANGED <<cm, ct, im, sy, game, hero_username, engine, metadata, hero_color,
                   half_move_num, info_before, cur, moments, move_evals,
                   moment_half_moves, queries>>

\* read_game: without a game the call returns [], {}, [] at once
ParseFails ==
    /\ pc = "start"
    /\ IsNone(game)
    /\ pc' = "returned"
    /\ UNCHANGED <<cm, ct, im, sy, game, hero_username, engine, metadata, hero_color,
                   half_move_num, info_before, cur, moments, move_evals,
                   moment_half_moves, queries>>

\* metadata extraction and hero colour
ParseGame ==
    /\ pc = "start"
    /\ ~IsNone(game)
    /\ LET md == [White |-> Val(game).White, Black |-> Val(game).Black]
       IN  /\ metadata' = md
           /\ hero_color' = determine_hero_color(md, hero_username)
    /\ pc' = "loop"
    /\ UNCHANGED <<cm, ct, im, sy, game, hero_username, engine, half_move_num, info_before,
                   cur, moments, move_evals, moment_half_moves, queries>>

\* the mainline is exhausted: leave the loop
LoopEnd ==
    /\ pc = "loop"
    /\ half_move_num = Val(game).plies
    /\ pc' = "tag"
    /\ UNCHANGED <<cm, ct, im, sy, game, hero_username, engine, metadata, hero_color,
                   half_move_num, info_before, cur, moments, move_evals,
                   moment_half_moves, queries>>

\* "if not self.engine: break"
LoopBreakNoEngine ==
    /\ pc = "loop"
    /\ half_move_num < Val(game).plies
    /\ ~engine
    /\ pc' = "tag"
    /\ UNCHANGED <<cm, ct, im, sy, game, hero_username, engine, metadata, hero_color,
                   half_move_num, info_before, cur, moments, move_evals,
                   moment_half_moves, queries>>

\* positions of the mainline are named by the number of moves replayed from
\* the start: node.parent.board() and node.board() of ply number hm
position_before(hm) == hm - 1

\* position_after handing back the position before the move
position_after_stale(hm) == hm - 1

position_after(hm) == hm

\* next node: board_before, mover_color, half_move_num += 1
NextNode ==
    /\ pc = "loop"
    /\ half_move_num < Val(game).plies
    /\ engine
    /\ half_move_num' = half_move_num + 1
    /\ cur' = [NoCur EXCEPT !.mover_color = turn_before(half_move_num + 1)]
    /\ pc' = "before"
    /\ UNCHANGED <<cm, ct, im, sy, game, hero_username, engine, metadata, hero_color,
                   info_before, moments, move_evals, moment_half_moves, queries>>

\* self.engine.analyse(board_before, ...) returns; cp_before is computed
AnalyseBefore ==
    /\ pc = "before"
    /\ \E reply \in BeforeReplies :
          LET info == [relative |-> reply.relative, turn |-> cur.mover_color,
                       pv |-> reply.pv]
          IN  /\ info_before' = info
              /\ cur' = [cur EXCEPT
                            !.cp_before = _score_to_cp(pov(info, cur.mover_color))]
    /\ queries' = Append(queries, [ply |-> half_move_num,
                                   position |-> position_before(half_move_num)])
    /\ pc' = "after"
    /\ UNCHANGED <<cm, ct, im, sy, game, hero_username, engine, metadata, hero_color,
                   half_move_num, moments, move_evals, moment_half_moves>>

\* either engine query raises (the engine process died): the error leaves
\* analyze_game
EngineRaises ==
    /\ pc \in {"before", "after"}
    /\ queries' = Append(queries,
                         [ply |-> half_move_num,
                          position |-> IF pc = "before"
                                       THEN position_before(half_move_num)
                                       ELSE position_after(half_move_num)])
    /\ pc' = "raised"
    /\ UNCHANGED <<cm, ct, im, sy, game, hero_username, engine, metadata, hero_color,
                   half_move_num, info_before, cur, moments, move_evals,
                   moment_half_moves>>

\* the arguments of the classify_tactic call of a flagged ply (the positions
\* themselves are not part of this specification)
tactic_call(is_blunder, mover_color, ib, ia, best_mate_in, mate_in) ==
    IF is_blunder
    THEN [board |-> "board_after",
          pv |-> IF IsNone(ia.pv) THEN 0 ELSE Val(ia.pv),
          mate_in |-> mate_in, mover_color |-> mover_color,
          board_before |-> TRUE]
    ELSE [board |-> "board_before",
          pv |-> IF IsNone(ib.pv) THEN 0 ELSE Val(ib.pv),
          mate_in |-> best_mate_in, mover_color |-> ~mover_color,
          board_before |-> FALSE]

\* make_moment numbering the moment by full move instead of half move
make_moment_full_move(hm, mover_color, ib, ia, cp_before, cp_after, best_mate_in, moment_result, hc) ==
    LET moment_type == moment_result[1]
        severity == moment_result[2]
        engine_best_move == IF IsNone(ib.pv) THEN None ELSE Some("pv[0]")
        pv_moves == IF IsNone(ib.pv) THEN 0 ELSE Val(ib.pv)
        pv_line == min(pv_moves, 4)
        refutation_pv == IF IsNone(ia.pv) THEN 0 ELSE Val(ia.pv)
        refutation_line == min(refutation_pv, 4)
        refutation_score == pov(ia, ia.turn)
        mate_in == IF is_mate(refutation_score)
                   THEN Some(abs(mate(refutation_score))) ELSE None
        is_blunder == moment_type = "blunder"
    IN  [move_played_san |-> hm,
         best_move_san |-> IF IsNone(engine_best_move) THEN "N/A" ELSE "san(pv[0])",
         best_move_uci |-> IF IsNone(engine_best_move) THEN "N/A" ELSE "uci(pv[0])",
         eval_swing |-> cp_after - cp_before,
         eval_after |-> cp_after,
         pv_line |-> pv_line,
         hero_color |-> hc,
         refutation_line |-> IF is_blunder THEN refutation_line ELSE 0,
         mate_in |-> mate_in,
         tactic_type |-> tactic_call(is_blunder, mover_color, ib, ia,
                                     best_mate_in, mate_in),
         moment_type |-> moment_type,
         severity |-> severity,
         best_line |-> IF ~is_blunder THEN pv_line ELSE 0,
         half_move_number |-> (hm + 1) \div 2]

\* the CrucialMoment built for a flagged ply (lines of SAN moves are kept as
\* the number of moves they hold, 0 for the empty string)
make_moment(hm, mover_color, ib, ia, cp_before, cp_after, best_mate_in, moment_result, hc) ==
    LET moment_type == moment_result[1]
        severity == moment_result[2]
        engine_best_move == IF IsNone(ib.pv) THEN None ELSE Some("pv[0]")
        pv_moves == IF IsNone(ib.pv) THEN 0 ELSE Val(ib.pv)
        pv_line == min(pv_moves, 4)
        refutation_pv == IF IsNone(ia.pv) THEN 0 ELSE Val(ia.pv)
        refutation_line == min(refutation_pv, 4)
        refutation_score == pov(ia, ia.turn)
        mate_in == IF is_mate(refutation_score)
                   THEN Some(abs(mate(refutation_score))) ELSE None
        is_blunder == moment_type = "blunder"
    IN  [move_played_san |-> hm,
         best_move_san |-> IF IsNone(engine_best_move) THEN "N/A" ELSE "san(pv[0])",
         best_move_uci |-> IF IsNone(engine_best_move) THEN "N/A" ELSE "uci(pv[0])",
         eval_swing |-> cp_after - cp_before,
         eval_after |-> cp_after,
         pv_line |-> pv_line,
         hero_color |-> hc,
         refutation_line |-> IF is_blunder THEN refutation_line ELSE 0,
         mate_in |-> mate_in,
         tactic_type |-> tactic_call(is_blunder, mover_color, ib, ia,
                                     best_mate_in, mate_in),
         moment_type |-> moment_type,
         severity |-> severity,
         best_line |-> IF ~is_blunder THEN pv_line ELSE 0,
         half_move_number |-> hm]

\* self.engine.analyse(board_after, ...) returns, and the rest of the loop
\* body runs: the trace entry, the hero filter, the mercy filter,
\* classify_moment and the CrucialMoment
AnalyseAfter ==
    /\ pc = "after"
    /\ \E reply \in AfterReplies :
        LET mover_color == cur.mover_color
            board_after_turn == ~mover_color
            info_after == [relative |-> reply.relative, turn |-> board_after_turn,
                           pv |-> reply.pv]
            score_after_white == white(info_after)
            cp_white_after == _score_to_cp(score_after_white)
            mate_in_white == IF is_mate(score_after_white)
                             THEN Some(mate(score_after_white)) ELSE None
            move_eval_entry == [half_move |-> half_move_num,
                                san |-> half_move_num,
                                eval_cp |-> cp_white_after,
                                mate_in |-> mate_in_white,
                                is_white |-> mover_color = WHITE,
                                moment_type |-> None,
                                moment_index |-> None]
            cp_before == cur.cp_before
            score_before == pov(info_before, mover_color)
            cp_after == -_score_to_cp(pov(info_after, board_after_turn))
            best_mate_in == IF is_mate(score_before) /\ mate(score_before) > 0
                            THEN Some(mate(score_before)) ELSE None
            score_after_mover == pov(info_after, mover_color)
            played_mate_in == IF is_mate(score_after_mover) /\ mate(score_after_mover) > 0
                              THEN Some(mate(score_after_mover)) ELSE None
            moment_result == classify_moment(cp_before, cp_after, best_mate_in,
                                             played_mate_in)
        IN  /\ move_evals' = Append(move_evals, move_eval_entry)
            /\ IF ~IsNone(hero_color) /\ mover_color # Val(hero_color)
               THEN \* not the hero's move
                    /\ cur' = [cur EXCEPT !.outcome = "not_hero"]
                    /\ pc' = "loop"
                    /\ UNCHANGED <<moments, moment_half_moves>>
               ELSE IF info_before.pv = Some(0)
               THEN \* info_before.get("pv", [None])[0] on an empty list
                    /\ cur' = [cur EXCEPT !.outcome = "index_error"]
                    /\ pc' = "raised"
                    /\ UNCHANGED <<moments, moment_half_moves>>
               ELSE IF mercy_filter(cp_before, cp_after)
               THEN /\ cur' = [cur EXCEPT !.cp_after = Some(cp_after),
                                          !.outcome = "mercy"]
                    /\ pc' = "loop"
                    /\ UNCHANGED <<moments, moment_half_moves>>
               ELSE IF IsNone(moment_result)
               THEN /\ cur' = [cur EXCEPT !.cp_after = Some(cp_after),
                                          !.outcome = "not_flagged"]
                    /\ pc' = "loop"
                    /\ UNCHANGED <<moments, moment_half_moves>>
               ELSE /\ cur' = [cur EXCEPT !.cp_after = Some(cp_after),
                                          !.outcome = "flagged"]
                    /\ moments' = Append(moments,
                           make_moment(half_move_num, mover_color, info_before,
                                       info_after, cp_before, cp_after,
                                       best_mate_in, moment_result, hero_color))
                    /\ moment_half_moves' =
                           Append(moment_half_moves, <<half_move_num, Len(moments)>>)
                    /\ pc' = "loop"
    /\ queries' = Append(queries, [ply |-> half_move_num,
                                   position |-> position_after(half_move_num)])
    /\ UNCHANGED <<cm, ct, im, sy, game, hero_username, engine, metadata, hero_color,
                   half_move_num, info_before>>

\* "Tag move_evals with moment info": for each (hm, idx) the first entry
\* whose half_move is hm gets the moment's type and index
first_entry_with(evals, hm) ==
    IF \E i \in 1..Len(evals) : evals[i].half_move = hm
    THEN Some(CHOOSE i \in 1..Len(evals) :
                 /\ evals[i].half_move = hm
                 /\ \A j \in 1..(i - 1) : evals[j].half_move # hm)
    ELSE None

RECURSIVE tag_move_evals(_, _, _, _)
tag_move_evals(evals, pairs, k, ms) ==
    IF k > Len(pairs) THEN evals
    ELSE LET hm == pairs[k][1]
             idx == pairs[k][2]
             at == first_entry_with(evals, hm)
             tagged == IF IsNone(at) THEN evals
                       ELSE [evals EXCEPT
                                ![Val(at)].moment_type = Some(ms[idx + 1].moment_type),
                                ![Val(at)].moment_index = Some(idx)]
         IN  tag_move_evals(tagged, pairs, k + 1, ms)

\* the loop is over: tag the trace and return (moments, metadata, move_evals)
TagAndReturn ==
    /\ pc = "tag"
    /\ move_evals' = tag_move_evals(move_evals, moment_half_moves, 1, moments)
    /\ pc' = "returned"
    /\ UNCHANGED <<cm, ct, im, sy, game, hero_username, engine, metadata, hero_color,
                   half_move_num, info_before, cur, moments, moment_half_moves,
                   queries>>

Next ==
    \/ ParseFails
    \/ ParseGame
    \/ LoopEnd
    \/ LoopBreakNoEngine
    \/ NextNode
    \/ AnalyseBefore
    \/ EngineRaises
    \/ AnalyseAfter
    \/ TagAndReturn

Spec == Init /\ [][Next]_vars

(***************************************************************************)
(* SpecTactic: classify_tactic as a pure function.  A scenario is a        *)
(* position with the hero to move and the move the hero played; the        *)
(* position after that move is board_after.  Diagrams list rank 8 first,   *)
(* upper case is White.                                                    *)
(***************************************************************************)
piece_of_char(c) ==
    CASE c = "P" -> Piece(WHITE, PAWN)   [] c = "p" -> Piece(BLACK, PAWN)
      [] c = "N" -> Piece(WHITE, KNIGHT) [] c = "n" -> Piece(BLACK, KNIGHT)
      [] c = "B" -> Piece(WHITE, BISHOP) [] c = "b" -> Piece(BLACK, BISHOP)
      [] c = "R" -> Piece(WHITE, ROOK)   [] c = "r" -> Piece(BLACK, ROOK)
      [] c = "Q" -> Piece(WHITE, QUEEN)  [] c = "q" -> Piece(BLACK, QUEEN)
      [] c = "K" -> Piece(WHITE, KING)   [] c = "k" -> Piece(BLACK, KING)
      [] OTHER -> NoPiece

Position(rows, turn) ==
    [at |-> [x \in Squares |->
                piece_of_char(rows[8 - square_rank(x)][square_file(x) + 1])],
     turn |-> turn,
     ep_square |-> None]

FileIndex == [a |-> 0, b |-> 1, c |-> 2, d |-> 3, e |-> 4, f |-> 5, g |-> 6, h |-> 7]
\* Sq("e", 4) is the square e4
Sq(f, r) == square(FileIndex[f], r - 1)

EmptyRow == <<".", ".", ".", ".", ".", ".", ".", ".">>

Scenarios == {
    \* the bishop on d2 masks the rook on d1 from the queen on d8
    [name |-> "discovered_on_queen", all_moves |-> TRUE,
     before |-> Position(<< <<".", ".", ".", "q", ".", ".", "k", ".">>,
                            EmptyRow, EmptyRow, EmptyRow, EmptyRow, EmptyRow,
                            <<".", ".", ".", "B", ".", ".", ".", ".">>,
                            <<".", ".", ".", "R", "K", ".", ".", ".">> >>, BLACK),
     played |-> Move(Sq("g", 8), Sq("h", 8)),
     lines |-> {}],
    \* the bishop on d2 masks the rook on d1 from the king on d8: Bxb4 takes a
    \* knight with a discovered check, Bxg5 takes one with a double check
    [name |-> "discovered_capture", all_moves |-> TRUE,
     before |-> Position(<< <<".", ".", "k", ".", ".", ".", ".", ".">>,
                            EmptyRow, EmptyRow,
                            <<".", ".", ".", ".", ".", ".", "n", ".">>,
                            <<".", "n", ".", ".", ".", ".", ".", ".">>,
                            EmptyRow,
                            <<".", ".", ".", "B", ".", ".", ".", ".">>,
                            <<".", ".", ".", "R", "K", ".", ".", ".">> >>, BLACK),
     played |-> Move(Sq("c", 8), Sq("d", 8)),
     lines |-> {}],
    \* Rxe4 takes the pawn on e4 and pins the knight on e6 to the king
    [name |-> "pin_and_pawn", all_moves |-> TRUE,
     before |-> Position(<< <<".", ".", ".", "k", ".", ".", ".", ".">>,
                            EmptyRow,
                            <<".", ".", ".", ".", "n", ".", ".", ".">>,
                            EmptyRow,
                            <<".", ".", ".", ".", "p", ".", ".", ".">>,
                            EmptyRow, EmptyRow,
                            <<".", ".", ".", ".", "R", ".", "K", ".">> >>, BLACK),
     played |-> Move(Sq("d", 8), Sq("e", 8)),
     lines |-> {}],
    \* ... c6-c5 blocks the rook's line to the knight on e5 and the queen
    \* behind it; Rxc5 takes the pawn and pins the knight again
    [name |-> "blocked_pin", all_moves |-> TRUE,
     before |-> Position(<< <<".", ".", ".", ".", ".", ".", ".", "k">>,
                            EmptyRow,
                            <<".", ".", "p", ".", ".", ".", ".", ".">>,
                            <<"R", ".", ".", ".", "n", ".", "q", ".">>,
                            EmptyRow, EmptyRow, EmptyRow,
                            <<".", ".", ".", ".", ".", ".", ".", "K">> >>, BLACK),
     played |-> Move(Sq("c", 6), Sq("c", 5)),
     lines |-> {}],
    \* a rook on the a-file with a queen and a rook of the other side on the
    \* long diagonal a1-h8
    [name |-> "diagonal_rook", all_moves |-> TRUE,
     before |-> Position(<< EmptyRow,
                            <<".", ".", ".", ".", ".", ".", ".", "k">>,
                            <<".", ".", ".", ".", ".", "r", ".", ".">>,
                            <<"R", ".", ".", ".", ".", ".", ".", ".">>,
                            <<".", ".", ".", "q", ".", ".", ".", ".">>,
                            EmptyRow, EmptyRow,
                            <<".", ".", ".", ".", ".", ".", ".", "K">> >>, BLACK),
     played |-> Move(Sq("h", 7), Sq("g", 8)),
     lines |-> {}],
    \* test_back_rank_mate: ... Kg8 allows Ra8#
    [name |-> "back_rank", all_moves |-> TRUE,
     before |-> Position(<< <<".", ".", ".", ".", ".", "k", ".", ".">>,
                            <<".", ".", ".", ".", ".", "p", "p", "p">>,
                            EmptyRow, EmptyRow, EmptyRow, EmptyRow,
                            <<".", ".", ".", ".", ".", "P", "P", "P">>,
                            <<"R", ".", ".", ".", "K", ".", ".", ".">> >>, BLACK),
     played |-> Move(Sq("f", 8), Sq("g", 8)),
     lines |-> {<<Move(Sq("a", 1), Sq("a", 8))>>,
                <<Move(Sq("a", 1), Sq("a", 8)), Move(Sq("g", 8), Sq("h", 8))>>,
                <<Move(Sq("a", 1), Sq("a", 8)), Move(Sq("a", 3), Sq("a", 4))>>,
                <<Move(Sq("a", 1), Sq("a", 7)), Move(Sq("h", 7), Sq("h", 6)),
                  Move(Sq("a", 7), Sq("a", 8))>>}],
    \* the mirror image: ... Kg1 allows Ra1#
    [name |-> "back_rank_white", all_moves |-> TRUE,
     before |-> Position(<< <<"r", ".", ".", ".", "k", ".", ".", ".">>,
                            <<".", ".", ".", ".", ".", "p", "p", "p">>,
                            EmptyRow, EmptyRow, EmptyRow, EmptyRow,
                            <<".", ".", ".", ".", ".", "P", "P", "P">>,
                            <<".", ".", ".", ".", ".", "K", ".", ".">> >>, WHITE),
     played |-> Move(Sq("f", 1), Sq("g", 1)),
     lines |-> {<<Move(Sq("a", 8), Sq("a", 1))>>}],
    \* a mate in two on the back rank: Qe8+ Rxe8 Rxe8#
    [name |-> "back_rank_in_two", all_moves |-> FALSE,
     before |-> Position(<< <<".", ".", ".", "r", ".", ".", ".", "k">>,
                            <<".", ".", ".", ".", ".", "p", "p", "p">>,
                            EmptyRow, EmptyRow,
                            <<".", ".", ".", ".", "Q", ".", ".", ".">>,
                            EmptyRow,
                            <<".", ".", ".", ".", ".", "P", "P", "P">>,
                            <<".", ".", ".", ".", "R", ".", "K", ".">> >>, BLACK),
     played |-> Move(Sq("h", 8), Sq("g", 8)),
     lines |-> {<<Move(Sq("e", 4), Sq("e", 8)), Move(Sq("d", 8), Sq("e", 8)),
                  Move(Sq("e", 1), Sq("e", 8))>>,
                <<Move(Sq("e", 4), Sq("e", 8)), Move(Sq("d", 8), Sq("e", 8)),
                  Move(Sq("e", 1), Sq("e", 8)), Move(Sq("g", 8), Sq("h", 8))>>}],
    \* a mate away from the home rank: the black king stands on h1, Qh2#
    [name |-> "mate_off_home_rank", all_moves |-> TRUE,
     before |-> Position(<< EmptyRow, EmptyRow, EmptyRow, EmptyRow, EmptyRow,
                            <<".", ".", ".", ".", ".", ".", "K", ".">>,
                            <<"Q", ".", ".", ".", ".", ".", ".", ".">>,
                            <<".", ".", ".", ".", ".", ".", "k", ".">> >>, BLACK),
     played |-> Move(Sq("g", 1), Sq("h", 1)),
     lines |-> {<<Move(Sq("a", 2), Sq("h", 2))>>}],
    \* test_fork: Nc7+ forks king and rook
    [name |-> "fork", all_moves |-> TRUE,
     before |-> Position(<< <<".", "r", ".", ".", "k", ".", ".", ".">>,
                            EmptyRow, EmptyRow,
                            <<".", ".", ".", "N", ".", ".", ".", ".">>,
                            EmptyRow, EmptyRow, EmptyRow,
                            <<".", ".", ".", ".", "K", ".", ".", ".">> >>, BLACK),
     played |-> Move(Sq("b", 8), Sq("a", 8)),
     lines |-> {}],
    \* test_pin: the knight on a2 is pinned to the king on a1
    [name |-> "pin", all_moves |-> TRUE,
     before |-> Position(<< <<"r", ".", ".", ".", "k", ".", ".", ".">>,
                            EmptyRow, EmptyRow, EmptyRow, EmptyRow,
                            <<".", ".", "N", ".", ".", ".", ".", ".">>,
                            EmptyRow,
                            <<"K", ".", ".", ".", ".", ".", ".", ".">> >>, WHITE),
     played |-> Move(Sq("c", 3), Sq("a", 2)),
     lines |-> {}],
    \* as test_losing_exchange: Qxe4 takes a knight defended by a pawn; the
    \* knight on f6 can take it too
    [name |-> "losing_exchange", all_moves |-> TRUE,
     before |-> Position(<< <<".", ".", ".", ".", "k", ".", ".", ".">>,
                            EmptyRow,
                            <<".", ".", ".", ".", ".", "n", ".", ".">>,
                            <<".", ".", "N", ".", ".", ".", ".", ".">>,
                            <<".", ".", ".", ".", ".", ".", ".", "q">>,
                            <<".", ".", ".", "P", ".", ".", ".", ".">>,
                            EmptyRow,
                            <<".", ".", ".", "K", ".", ".", ".", ".">> >>, WHITE),
     played |-> Move(Sq("c", 5), Sq("e", 4)),
     lines |-> {}],
    \* test_trapped_piece: the knight on a1 has no square
    [name |-> "trapped_piece", all_moves |-> TRUE,
     before |-> Position(<< <<".", ".", ".", ".", "k", ".", ".", ".">>,
                            EmptyRow, EmptyRow, EmptyRow, EmptyRow,
                            <<".", "P", ".", ".", ".", ".", ".", ".">>,
                            <<"r", ".", "P", ".", ".", ".", ".", ".">>,
                            <<"N", ".", ".", "K", ".", ".", ".", ".">> >>, WHITE),
     played |-> Move(Sq("d", 1), Sq("e", 1)),
     lines |-> {}],
    \* as test_discovered_attack: a bishop move uncovers the rook on d1
    [name |-> "discovered_attack", all_moves |-> TRUE,
     before |-> Position(<< <<".", ".", "k", ".", ".", ".", ".", ".">>,
                            EmptyRow, EmptyRow, EmptyRow, EmptyRow, EmptyRow,
                            <<".", ".", ".", "B", ".", ".", ".", ".">>,
                            <<".", ".", ".", "R", "K", ".", ".", ".">> >>, BLACK),
     played |-> Move(Sq("c", 8), Sq("d", 8)),
     lines |-> {}],
    \* a rook move to d1 attacks the queen on d5 with the rook on d8 behind it
    [name |-> "skewer", all_moves |-> TRUE,
     before |-> Position(<< <<".", ".", ".", "r", ".", ".", ".", "k">>,
                            EmptyRow,
                            <<".", ".", ".", "q", ".", ".", ".", ".">>,
                            EmptyRow, EmptyRow, EmptyRow, EmptyRow,
                            <<"R", ".", ".", ".", ".", ".", "K", ".">> >>, BLACK),
     played |-> Move(Sq("d", 6), Sq("d", 5)),
     lines |-> {}],
    \* ... d7-d5 allows exd6 en passant
    [name |-> "en_passant", all_moves |-> TRUE,
     before |-> Position(<< <<".", ".", ".", ".", "k", ".", ".", ".">>,
                            <<".", ".", ".", "p", ".", ".", ".", ".">>,
                            EmptyRow,
                            <<".", ".", ".", ".", "P", ".", ".", ".">>,
                            EmptyRow, EmptyRow, EmptyRow,
                            <<".", ".", ".", ".", "K", ".", ".", ".">> >>, BLACK),
     played |-> Move(Sq("d", 7), Sq("d", 5)),
     lines |-> {}],
    \* the pawn on b7 takes the rook on a8 and promotes
    [name |-> "promotion_capture", all_moves |-> TRUE,
     before |-> Position(<< <<"r", ".", ".", "k", ".", ".", ".", ".">>,
                            <<".", "P", ".", ".", ".", ".", ".", ".">>,
                            EmptyRow, EmptyRow, EmptyRow, EmptyRow, EmptyRow,
                            <<".", ".", ".", ".", "K", ".", ".", ".">> >>, BLACK),
     played |-> Move(Sq("d", 8), Sq("e", 8)),
     lines |-> {}],
    \* test_hanging_piece: Nd5 leaves the knight to ... Nxd5
    [name |-> "hanging_piece", all_moves |-> FALSE,
     before |-> Position(<< <<"r", ".", "b", "q", "k", "b", ".", "r">>,
                            <<"p", "p", "p", "p", "p", "p", "p", "p">>,
                            <<".", ".", ".", ".", ".", "n", ".", ".">>,
                            EmptyRow, EmptyRow,
                            <<".", ".", "N", ".", ".", ".", ".", ".">>,
                            <<"P", "P", "P", "P", "P", "P", "P", "P">>,
                            <<"R", ".", "B", "Q", "K", "B", "N", "R">> >>, WHITE),
     played |-> Move(Sq("c", 3), Sq("d", 5)),
     lines |-> {<<Move(Sq("f", 6), Sq("d", 5))>>}],
    \* test_hanging_pawn: e5 leaves the pawn to ... dxe5
    [name |-> "hanging_pawn", all_moves |-> FALSE,
     before |-> Position(<< <<"r", "n", "b", "q", "k", "b", "n", "r">>,
                            <<"p", "p", "p", ".", "p", "p", "p", "p">>,
                            <<".", ".", ".", "p", ".", ".", ".", ".">>,
                            EmptyRow,
                            <<".", ".", ".", ".", "P", ".", ".", ".">>,
                            EmptyRow,
                            <<"P", "P", "P", "P", ".", "P", "P", "P">>,
                            <<"R", "N", "B", "Q", "K", "B", "N", "R">> >>, WHITE),
     played |-> Move(Sq("e", 4), Sq("e", 5)),
     lines |-> {<<Move(Sq("d", 6), Sq("e", 5))>>}],
    \* test_positional_fallback: after 1. e4 the reply ... d5
    [name |-> "positional", all_moves |-> FALSE,
     before |-> Position(<< <<"r", "n", "b", "q", "k", "b", "n", "r">>,
                            <<"p", "p", "p", "p", "p", "p", "p", "p">>,
                            EmptyRow, EmptyRow, EmptyRow, EmptyRow,
                            <<"P", "P", "P", "P", "P", "P", "P", "P">>,
                            <<"R", "N", "B", "Q", "K", "B", "N", "R">> >>, WHITE),
     played |-> Move(Sq("e", 2), Sq("e", 4)),
     lines |-> {<<Move(Sq("d", 7), Sq("d", 5))>>}]
    }

\* the refutation lines tried on a scenario: no line, every legal reply, the
\* scenario's own lines, and a move from an empty square (which no push
\* accepts), alone and after a legal first move; at most MaxPvLen moves
first_n(line, n) == [i \in 1..min(Len(line), n) |-> line[i]]

unreplayable(board) ==
    LET from == CHOOSE x \in Squares :
                   /\ ~occupied(board, x)
                   /\ \A y \in Squares : ~occupied(board, y) => x <= y
    IN  Move(from, from + 8)

RefutationLines(sc, board) ==
    {<<>>, <<unreplayable(board)>>}
        \cup {first_n(line, MaxPvLen) : line \in sc.lines}
        \cup {first_n(<<line[1], unreplayable(push(board, line[1]))>>, MaxPvLen)
                 : line \in sc.lines}
        \cup (IF sc.all_moves THEN {<<m>> : m \in legal_moves(board)} ELSE {})

TacticMateDists == {None} \cup {Some(n) : n \in -1..MaxMateDist}

(***************************************************************************)
(* The objects classify_tactic works on.  A heap maps the names of the     *)
(* board objects of one call to the positions they hold: the arguments     *)
(* board_after and board_before, and the locals board_copy and sim.        *)
(***************************************************************************)
\* copy_board binding the local to the source object itself (no copy made)
copy_board_alias(heap, src, local) == [heap |-> heap, obj |-> src]

\* local = src.copy(): a new object holding the position of src; gives the
\* heap after the copy and the object the local names
copy_board(heap, src, local) == [heap |-> [heap EXCEPT ![local] = heap[src]], obj |-> local]

\* obj.push(move)
push_on(heap, obj, move) == [heap EXCEPT ![obj] = push(heap[obj], move)]

\* "for m in mate_pv: sim.push(m)", left at the first move that raises
RECURSIVE push_line_on(_, _, _, _)
push_line_on(heap, obj, line, k) ==
    IF k > Len(line) THEN heap
    ELSE IF ~can_push(heap[obj], line[k]) THEN heap
    ELSE push_line_on(push_on(heap, obj, line[k]), obj, line, k + 1)

\* the heap _is_back_rank_mate leaves behind
is_back_rank_mate_objects(heap, board, mate_pv) ==
    LET c == copy_board(heap, board, "sim")
    IN  push_line_on(c.heap, c.obj, mate_pv, 1)

\* the escape moves the trapped-piece loop may simulate: the legal moves of
\* the attacked queens, rooks, bishops and knights of the mover (the loop
\* stops early at the first escape it finds)
trapped_simulated(board_copy, mover_color) ==
    UNION {legal_moves_from(board_copy, sq) :
             sq \in {t \in Squares :
                       /\ board_copy.at[t].piece_type \in {QUEEN, ROOK, BISHOP, KNIGHT}
                       /\ board_copy.at[t].color = mover_color
                       /\ is_attacked_by(board_copy, ~mover_color, t)}}

\* "sim = board_copy.copy(); sim.push(legal)" for each simulated move
RECURSIVE simulate_on(_, _, _)
simulate_on(heap, board_copy, todo) ==
    IF todo = {} \/ heap[board_copy] = <<>> THEN heap
    ELSE LET legal == CHOOSE mv \in todo : TRUE
             c == copy_board(heap, board_copy, "sim")
             after == IF can_push(c.heap[c.obj], legal)
                      THEN push_on(c.heap, c.obj, legal) ELSE c.heap
         IN  simulate_on(after, board_copy, todo \ {legal})

\* what the caller's objects hold when classify_tactic returns (or raises)
classify_tactic_objects(board_after, refutation_pv, mate_in, mover_color, board_before) ==
    LET heap0 == [board_after |-> board_after, board_before |-> board_before,
                  board_copy |-> <<>>, sim |-> <<>>]
        label == classify_tactic(board_after, refutation_pv, mate_in, mover_color,
                                 board_before)
        heap ==
          IF mate_in_within_limit(mate_in)
          THEN IF refutation_pv # <<>>
               THEN is_back_rank_mate_objects(heap0, "board_after", refutation_pv)
               ELSE heap0
          ELSE IF refutation_pv = <<>> THEN heap0
          ELSE LET c == copy_board(heap0, "board_after", "board_copy")
               IN  IF ~can_push(c.heap[c.obj], refutation_pv[1]) THEN c.heap
                   ELSE LET pushed == push_on(c.heap, c.obj, refutation_pv[1])
                        IN  IF label \in {"trapped_piece", "positional"}
                            THEN simulate_on(pushed, c.obj,
                                     trapped_simulated(pushed[c.obj], mover_color))
                            ELSE pushed
    IN  [board_after |-> heap.board_after, board_before |-> heap.board_before,
         refutation_pv |-> refutation_pv]

InitTactic ==
    /\ TransferIdle
    /\ cm = CmIdle
    /\ DriverIdle
    /\ \E sc \in Scenarios :
          LET board == push(sc.before, sc.played)
          IN  \E line \in RefutationLines(sc, board) :
              \E mate_in \in TacticMateDists :
              \E mover_color \in BOOLEAN :
              \E board_before \in {None, Some(sc.before)} :
                 ct = [called |-> FALSE, result |-> "", scenario |-> sc.name,
                       board_after |-> board, refutation_pv |-> line,
                       mate_in |-> mate_in, mover_color |-> mover_color,
                       board_before |-> board_before, on_return |-> <<>>]

CallClassifyTactic ==
    /\ ~ct.called
    /\ ct' = [ct EXCEPT !.called = TRUE,
                        !.result = classify_tactic(ct.board_after, ct.refutation_pv,
                                       ct.mate_in, ct.mover_color, ct.board_before),
                        !.on_return = classify_tactic_objects(ct.board_after,
                                       ct.refutation_pv, ct.mate_in, ct.mover_color,
                                       ct.board_before)]
    /\ UNCHANGED <<cm, driverVars, transferVars>>

NextTactic == CallClassifyTactic

SpecTactic == InitTactic /\ [][NextTactic]_vars

(***************************************************************************)
(* SpecMoment: classify_moment as a pure function.  Init draws the four    *)
(* arguments, CallClassifyMoment applies the function once.                *)
(***************************************************************************)
EvalInputs ==
    {k * 100 + d : k \in (-MaxHundreds)..MaxHundreds, d \in {-1, 0, 1}}
        \cup {MATE_SCORE_CP, -MATE_SCORE_CP}

MateInputs == {None} \cup {Some(n) : n \in (-1)..MaxMateIn}

InitMoment ==
    /\ TransferIdle
    /\ cm \in [called : {FALSE}, best_eval : EvalInputs, played_eval : EvalInputs,
               best_mate_in : MateInputs, played_mate_in : MateInputs,
               result : {None}]
    /\ ct = CtIdle
    /\ DriverIdle

CallClassifyMoment ==
    /\ ~cm.called
    /\ cm' = [cm EXCEPT !.called = TRUE,
                        !.result = classify_moment(cm.best_eval, cm.played_eval,
                                       cm.best_mate_in, cm.played_mate_in)]
    /\ UNCHANGED <<ct, driverVars, transferVars>>

NextMoment == CallClassifyMoment

SpecMoment == InitMoment /\ [][NextMoment]_vars

(***************************************************************************)
(* Conditions of section 4.2 of the specification, stated on the inputs.   *)
(***************************************************************************)
\* the played move did not deliver a mate: played_mate_in absent or <= 0
NoMateDelivered(played_mate_in) ==
    IsNone(played_mate_in) \/ Val(played_mate_in) <= 0

MissedMateCase(best_mate_in, played_mate_in) ==
    /\ ~IsNone(best_mate_in)
    /\ 1 <= Val(best_mate_in) /\ Val(best_mate_in) <= 5
    /\ NoMateDelivered(played_mate_in)

BlunderCase(best_eval, played_eval) ==
    best_eval - played_eval >= 200 /\ played_eval < -100

MissedChanceCase(best_eval, played_eval) ==
    /\ best_eval - played_eval >= 200
    /\ best_eval >= 200
    /\ played_eval >= -100

SeverityTier(magnitude) ==
    IF magnitude >= 500 THEN "critical"
    ELSE IF magnitude >= 300 THEN "major"
    ELSE "minor"

CmFlagged == cm.called /\ ~IsNone(cm.result)
CmType == cm.result[1]
CmSeverity == cm.result[2]
CmSwing == cm.best_eval - cm.played_eval

(***************************************************************************)
(* C1: a hero ply whose cp_before and cp_after are computed is suppressed  *)
(* by the mercy filter if and only if |cp_before| > 500, |cp_after| > 500  *)
(* and both have the same non-zero sign; a suppressed ply emits no         *)
(* CrucialMoment, whatever the swing or the mate distances; exactly 500 or *)
(* -500 on either side is not decided.                                     *)
(***************************************************************************)
Sign(n) == IF n > 0 THEN 1 ELSE IF n < 0 THEN -1 ELSE 0

DecidedPosition(cp_before, cp_after) ==
    /\ abs(cp_before) > 500
    /\ abs(cp_after) > 500
    /\ Sign(cp_before) = Sign(cp_after)
    /\ Sign(cp_before) # 0

\* the ply just processed reached the mercy filter
ReachedFilter == cur.outcome \in {"mercy", "not_flagged", "flagged"}

MomentAt(hm) == \E i \in 1..Len(moments) : moments[i].half_move_number = hm

C1_MercyFilter ==
    ReachedFilter =>
        /\ (cur.outcome = "mercy")
              <=> DecidedPosition(cur.cp_before, Val(cur.cp_after))
        /\ (cur.outcome = "mercy") => ~MomentAt(half_move_num)
        /\ (abs(cur.cp_before) = 500 \/ abs(Val(cur.cp_after)) = 500)
              => cur.outcome # "mercy"

\* a missed mate in 2 (cp_before 10000) answered by a move that keeps +501 is
\* suppressed although the swing is 9499
C1_Witness ==
    /\ cur.outcome = "mercy"
    /\ cur.cp_before = 10000 /\ cur.cp_after = Some(501)
    /\ ~MomentAt(half_move_num)

(***************************************************************************)
(* C2: classify_moment returns missed_mate whenever best_mate_in is        *)
(* present with 1 <= best_mate_in <= 5 and played_mate_in is absent or     *)
(* <= 0.  The code tests played_mate_in for None only, so the statement    *)
(* fails for a played_mate_in that is present and <= 0.                    *)
(***************************************************************************)
C2_MissedMateFirst ==
    (cm.called /\ MissedMateCase(cm.best_mate_in, cm.played_mate_in))
        => (~IsNone(cm.result) /\ CmType = "missed_mate")

(***************************************************************************)
(* C3: when the missed-mate case does not apply, every input with          *)
(* best_eval - played_eval >= 200 and played_eval < -100 is a blunder      *)
(* carrying the severity tier of that swing.                               *)
(***************************************************************************)
C3_Blunder ==
    (/\ cm.called
     /\ ~MissedMateCase(cm.best_mate_in, cm.played_mate_in)
     /\ BlunderCase(cm.best_eval, cm.played_eval))
        => cm.result = <<"blunder", SeverityTier(abs(CmSwing))>>

\* classify_moment(0, -300, None, None) = ("blunder", "major")
C3_Witness ==
    /\ cm.called /\ cm.best_eval = 0 /\ cm.played_eval = -300
    /\ IsNone(cm.best_mate_in) /\ IsNone(cm.played_mate_in)
    /\ cm.result = <<"blunder", "major">>

C5_NoneIffNoCase ==
    cm.called =>
        (IsNone(cm.result) <=>
            /\ ~MissedMateCase(cm.best_mate_in, cm.played_mate_in)
            /\ ~BlunderCase(cm.best_eval, cm.played_eval)
            /\ ~MissedChanceCase(cm.best_eval, cm.played_eval))

(***************************************************************************)
(* C6: the severity of a flagged moment is the tier of the absolute swing  *)
(* |best_eval - played_eval|: critical from 500, major from 300 to 499,    *)
(* minor below; the sign of the swing does not matter.                     *)
(***************************************************************************)
C6_SeverityByMagnitude ==
    CmFlagged => CmSeverity = SeverityTier(abs(CmSwing))

\* a flagged moment whose swing is -600 (a missed mate after which the
\* evaluation rose) is critical
C6_Witness ==
    /\ CmFlagged /\ CmSwing = -600 /\ CmSeverity = "critical"

(***************************************************************************)
(* Claims about classify_tactic (SpecTactic)                               *)
(***************************************************************************)
CtMateBranch == ct.called /\ ~IsNone(ct.mate_in) /\ Val(ct.mate_in) <= 9

HomeRank(color) == IF color = WHITE THEN 0 ELSE 7

\* playing the whole refutation line from board_after ends in checkmate with
\* the king of the mover's colour on its home rank
EndsInHomeRankMate ==
    LET sim == replay(ct.board_after, ct.refutation_pv, 1)
    IN  /\ ~IsNone(sim)
        /\ is_checkmate(Val(sim))
        /\ \E x \in Squares :
              /\ Val(sim).at[x] = Piece(ct.mover_color, KING)
              /\ square_rank(x) = HomeRank(ct.mover_color)

\* none of the mate, skewer, pin, discovered-attack, hanging, fork and trapped
\* detectors matches the call (the line is not empty)
CtNoDetectorMatches ==
    /\ ~(~IsNone(ct.mate_in) /\ Val(ct.mate_in) <= 9)
    /\ can_push(ct.board_after, ct.refutation_pv[1]) =>
          LET first_move == ct.refutation_pv[1]
              board_copy == push(ct.board_after, first_move)
          IN  /\ ~skewer_found(ct.board_after, board_copy, first_move, ct.mover_color)
              /\ ~pin_found(ct.board_after, board_copy, ct.mover_color, ct.board_before)
              /\ ~discovered_found(ct.board_after, board_copy, first_move,
                                   ct.mover_color)
              /\ IsNone(capture_label(ct.board_after, first_move, ct.mover_color))
              /\ ~fork_found(ct.board_after, board_copy, first_move, ct.mover_color)
              /\ ~trapped_found(board_copy, ct.mover_color)

\* C7: every call of classify_tactic returns one label of the closed set of
\* twelve, and on a non-empty refutation line that no detector matches the
\* label is positional, never unknown.  The code raises instead of returning
\* when the first refutation move cannot be pushed on board_after.
C7_ExactlyOneLabel ==
    ct.called =>
        /\ ct.result \in TACTIC_LABELS
        /\ ct.refutation_pv # <<>> /\ CtNoDetectorMatches
              => ct.result = "positional"

\* C8: with mate_in present and <= 9 the label is back_rank_mate when the
\* whole refutation line replays to a checkmate with the mover-colour king on
\* its home rank, and forced_mate otherwise (empty or unreplayable line
\* included); no other label is returned.
C8_MateBranch ==
    CtMateBranch =>
        ct.result = IF ct.refutation_pv # <<>> /\ EndsInHomeRankMate
                    THEN "back_rank_mate"
                    ELSE "forced_mate"

C8_Witness ==
    /\ CtMateBranch
    /\ ct.scenario = "back_rank_in_two"
    /\ Len(ct.refutation_pv) = 3
    /\ ct.mate_in = Some(2)
    /\ ct.mover_color = BLACK
    /\ ct.result = "back_rank_mate"

\* C9: with mate_in absent or greater than 9 classify_tactic never returns
\* forced_mate or back_rank_mate.
C9_NoMateLabelBeyondLimit ==
    ct.called /\ (IsNone(ct.mate_in) \/ Val(ct.mate_in) > 9)
        => ct.result \notin {"forced_mate", "back_rank_mate"}

\* a mate in 12 whose line is the back-rank mate Ra8#
C9_Witness ==
    /\ ct.called
    /\ ct.mate_in = Some(12)
    /\ ct.scenario = "back_rank"
    /\ ct.mover_color = BLACK
    /\ ct.refutation_pv = <<Move(Sq("a", 1), Sq("a", 8))>>
    /\ EndsInHomeRankMate
    /\ ct.result = "positional"

\* C10 as stated: an empty refutation line always gives unknown.
C10_EmptyPvUnknown ==
    ct.called /\ ct.refutation_pv = <<>> => ct.result = "unknown"

\* C10 amended: an empty refutation line gives unknown when mate_in is absent
\* or greater than 9, and forced_mate when mate_in is present and <= 9.
C10_EmptyPvUnknownUnlessMate ==
    ct.called /\ ct.refutation_pv = <<>>
        => ct.result = IF ~IsNone(ct.mate_in) /\ Val(ct.mate_in) <= 9
                       THEN "forced_mate"
                       ELSE "unknown"

C10_Witness ==
    /\ ct.called
    /\ ct.refutation_pv = <<>>
    /\ ct.mate_in = Some(5)
    /\ ct.result = "forced_mate"

\* the call went past the mate and empty-line tests and its first
\* refutation move can be played
CtChain ==
    /\ ct.called
    /\ ~(~IsNone(ct.mate_in) /\ Val(ct.mate_in) <= 9)
    /\ ct.refutation_pv # <<>>
    /\ can_push(ct.board_after, ct.refutation_pv[1])

CtFirstMove == ct.refutation_pv[1]
\* the position after the first refutation move
CtBoardCopy == push(ct.board_after, CtFirstMove)

CtSkewer == skewer_found(ct.board_after, CtBoardCopy, CtFirstMove, ct.mover_color)

\* the first refutation move creates a pin: a mover piece is absolutely (or
\* relatively) pinned after it and was not so pinned immediately before it
CtNewPinByRefutation ==
    \/ _find_absolute_pins(CtBoardCopy, ct.mover_color)
          \ _find_absolute_pins(ct.board_after, ct.mover_color) # {}
    \/ _find_relative_pins(CtBoardCopy, ~ct.mover_color, ct.mover_color)
          \ _find_relative_pins(ct.board_after, ~ct.mover_color, ct.mover_color) # {}

\* the first refutation move captures a pawn of the mover (en passant included)
CtCapturesMoverPawn ==
    /\ is_capture(ct.board_after, CtFirstMove)
    /\ \/ piece_at(ct.board_after, CtFirstMove.to_square) = Piece(ct.mover_color, PAWN)
       \/ /\ is_en_passant(ct.board_after, CtFirstMove)
          /\ ct.board_after.turn = ~ct.mover_color

\* the mover is the side that has just moved, as in every call analyze_game
\* makes
CtFromDriver == ct.mover_color = ~ct.board_after.turn

\* C11: with no mate within 9 and no skewer, a first refutation move that
\* both creates a new pin on a mover piece and captures a mover pawn is
\* labelled pin, not hanging_pawn.
C11_PinBeforeHangingPawn ==
    CtChain /\ CtFromDriver /\ ~CtSkewer /\ CtNewPinByRefutation /\ CtCapturesMoverPawn
        => ct.result = "pin"

\* the pin detector of classify_tactic matches the call
CtPin == pin_found(ct.board_after, CtBoardCopy, ct.mover_color, ct.board_before)

\* the first refutation move captures a piece or pawn of the mover
CtCapturesMoverPiece ==
    /\ is_capture(ct.board_after, CtFirstMove)
    /\ \/ /\ occupied(ct.board_after, CtFirstMove.to_square)
          /\ piece_at(ct.board_after, CtFirstMove.to_square).color = ct.mover_color
       \/ /\ is_en_passant(ct.board_after, CtFirstMove)
          /\ ct.board_after.turn = ~ct.mover_color

\* (a) after the first refutation move the mover's king is in check from an
\* opponent piece other than the piece that just moved
CtDiscoveredCheck ==
    LET k == king(CtBoardCopy, ct.mover_color)
    IN  /\ ~IsNone(k)
        /\ \E s \in attackers(CtBoardCopy, ~ct.mover_color, Val(k)) :
              s # CtFirstMove.to_square

\* (b) a mover queen or rook is attacked from a square that did not attack it
\* before the move, the moved piece's destination square not counted
CtNewAttackerOnQueenOrRook ==
    \E sq \in Squares :
       /\ CtBoardCopy.at[sq].piece_type \in {QUEEN, ROOK}
       /\ CtBoardCopy.at[sq].color = ct.mover_color
       /\ \E s \in attackers(CtBoardCopy, ~ct.mover_color, sq) :
             /\ s \notin attackers(ct.board_after, ~ct.mover_color, sq)
             /\ s # CtFirstMove.to_square

CtDiscovered == CtDiscoveredCheck \/ CtNewAttackerOnQueenOrRook

\* C12: when neither mate, skewer nor pin matches, a first refutation move
\* that both captures a mover-owned piece and triggers a discovered attack is
\* labelled discovered_attack, never hanging_piece, hanging_pawn or
\* losing_exchange.
C12_DiscoveredBeforeHanging ==
    CtChain /\ CtFromDriver /\ ~CtSkewer /\ ~CtPin
            /\ CtCapturesMoverPiece /\ CtDiscovered
        => ct.result = "discovered_attack"

CtNoMateWithinLimit == ct.called /\ ~(~IsNone(ct.mate_in) /\ Val(ct.mate_in) <= 9)

\* the piece the first refutation move moves
CtMovedPiece == piece_at(ct.board_after, CtFirstMove.from_square)

\* from the destination square of the first refutation move there is an
\* unobstructed line to the mover piece on `front`, and the first piece
\* behind it on that line stands on `back`
CtLineThrough(front, back) ==
    /\ front \in lib_between(CtFirstMove.to_square, back)
    /\ occupied(CtBoardCopy, front)
    /\ occupied(CtBoardCopy, back)
    /\ \A x \in lib_between(CtFirstMove.to_square, back) \ {front} :
          ~occupied(CtBoardCopy, x)

\* C13 as stated: skewer exactly when a rook or queen move reaches, along an
\* unobstructed line, a mover piece whose first piece behind is also the
\* mover's, front piece value <= back piece value.
C13_SkewerFrontAtMostBack ==
    CtNoMateWithinLimit =>
        (ct.result = "skewer" <=>
            /\ ct.refutation_pv # <<>>
            /\ can_push(ct.board_after, CtFirstMove)
            /\ CtMovedPiece.piece_type \in {ROOK, QUEEN}
            /\ \E front, back \in Squares :
                  /\ CtLineThrough(front, back)
                  /\ CtBoardCopy.at[front].color = ct.mover_color
                  /\ CtBoardCopy.at[back].color = ct.mover_color
                  /\ PIECE_VALUES(CtBoardCopy.at[front].piece_type)
                        <= PIECE_VALUES(CtBoardCopy.at[back].piece_type))

\* C13 amended: the front piece is a mover queen, rook, bishop or knight and
\* its value is >= the value of the mover piece behind it.
C13_SkewerFrontAtLeastBack ==
    CtNoMateWithinLimit =>
        (ct.result = "skewer" <=>
            /\ ct.refutation_pv # <<>>
            /\ can_push(ct.board_after, CtFirstMove)
            /\ CtMovedPiece.piece_type \in {ROOK, QUEEN}
            /\ \E front, back \in Squares :
                  /\ CtLineThrough(front, back)
                  /\ CtBoardCopy.at[front].color = ct.mover_color
                  /\ CtBoardCopy.at[front].piece_type \in {QUEEN, ROOK, BISHOP, KNIGHT}
                  /\ CtBoardCopy.at[back].color = ct.mover_color
                  /\ PIECE_VALUES(CtBoardCopy.at[front].piece_type)
                        >= PIECE_VALUES(CtBoardCopy.at[back].piece_type))

\* Rd1 attacks the queen on d5 with the rook on d8 behind it
C13_Witness ==
    /\ CtChain
    /\ CtFromDriver
    /\ ct.scenario = "skewer"
    /\ CtMovedPiece.piece_type = ROOK
    /\ CtLineThrough(Sq("d", 5), Sq("d", 8))
    /\ ct.result = "skewer"

\* C14: when neither mate nor skewer matched, classify_tactic returns pin
\* exactly when some mover piece is absolutely or relatively pinned after the
\* first refutation move and was not pinned immediately before it, whether or
\* not board_before is supplied.
C14_PinOnlyIfCreatedByRefutation ==
    CtChain /\ CtFromDriver /\ ~CtSkewer
        => (ct.result = "pin" <=> CtNewPinByRefutation)

\* C15: when neither mate, skewer nor pin matched, classify_tactic returns
\* discovered_attack whenever, after the first refutation move, (a) the
\* mover's king is in check from an opponent piece other than the piece that
\* just moved, or (b) a mover queen or rook has a new attacker other than the
\* moved piece.
C15_DiscoveredAttack ==
    CtChain /\ CtFromDriver /\ ~CtSkewer /\ ~CtPin /\ CtDiscovered
        => ct.result = "discovered_attack"

\* the discovered-attack detector of classify_tactic matches the call
CtDiscoveredDetector ==
    discovered_found(ct.board_after, CtBoardCopy, CtFirstMove, ct.mover_color)

\* the piece the first refutation move captures is a pawn (en passant
\* included)
CtCapturedIsPawn ==
    \/ piece_at(ct.board_after, CtFirstMove.to_square).piece_type = PAWN
    \/ is_en_passant(ct.board_after, CtFirstMove)

\* the capture square is defended by the mover and the capturing piece is
\* worth strictly more than the captured piece
CtDefendedAndWorthLess ==
    /\ is_attacked_by(ct.board_after, ct.mover_color, CtFirstMove.to_square)
    /\ PIECE_VALUES(CtMovedPiece.piece_type)
          > PIECE_VALUES(piece_at(ct.board_after, CtFirstMove.to_square).piece_type)

\* C16: when no earlier detector matched and the first refutation move
\* captures a mover-owned piece, the label is hanging_pawn if the captured
\* piece is a pawn (en passant included), otherwise losing_exchange if the
\* capture square is defended by the mover and the capturing piece is worth
\* strictly more than the captured piece, otherwise hanging_piece.
C16_HangingOrLosingExchange ==
    CtChain /\ ~CtSkewer /\ ~CtPin /\ ~CtDiscoveredDetector /\ CtCapturesMoverPiece
        => ct.result = IF CtCapturedIsPawn THEN "hanging_pawn"
                       ELSE IF CtDefendedAndWorthLess THEN "losing_exchange"
                       ELSE "hanging_piece"

\* Qxe4: the queen takes the knight that the pawn on d3 defends
C16_Witness ==
    /\ CtChain
    /\ CtFromDriver
    /\ ct.scenario = "losing_exchange"
    /\ CtMovedPiece.piece_type = QUEEN
    /\ CtCapturesMoverPiece
    /\ CtDefendedAndWorthLess
    /\ ct.result = "losing_exchange"

(***************************************************************************)
(* Claims about analyze_game (specification Spec).                         *)
(***************************************************************************)
\* the call returned (moments, metadata, move_evals) to its caller
AgReturned == pc = "returned"

\* the number of mainline plies of the game given to the call
AgPlies == IF IsNone(game) THEN 0 ELSE Val(game).plies

\* C17: the moment list is in ply order with at most one CrucialMoment per
\* ply: the half_move_number values of the moments are strictly increasing
\* along the list, at every point of the call and in the list returned.
C17_MomentsInPlyOrder ==
    \A i \in 1..Len(moments) : \A j \in 1..Len(moments) :
        i < j => moments[i].half_move_number < moments[j].half_move_number

\* a call that returned two moments
C17_Witness == AgReturned /\ Len(moments) >= 2

\* C18: engine failure is all-or-nothing: a call that returns normally has
\* analysed every mainline ply of its game, so a call whose engine is
\* unavailable never returns normally with the remaining plies left out.
C18_NoNormalReturnWithPliesOmitted ==
    (AgReturned /\ ~IsNone(game)) => Len(move_evals) = Val(game).plies

\* the colour of the hero read from the headers: hero_username equals the
\* White or the Black header, case-insensitively
AgHeroIs(name) ==
    /\ ~IsNone(game)
    /\ ~IsNone(hero_username)
    /\ Val(hero_username) # <<>>
    /\ lower(Val(hero_username)) = lower(name)
AgHeroWhite == AgHeroIs(WhiteName)
AgHeroBlack == ~AgHeroWhite /\ AgHeroIs(BlackName)

\* C19: when the hero's colour is determined, every CrucialMoment belongs
\* to a ply moved by the hero's colour; no opponent ply is flagged.
C19_OnlyHeroPliesFlagged ==
    \A i \in 1..Len(moments) :
        /\ AgHeroWhite => turn_before(moments[i].half_move_number) = WHITE
        /\ AgHeroBlack => turn_before(moments[i].half_move_number) = BLACK

\* a call with the hero playing Black returned a moment (the opponent moved
\* first and was not flagged)
C19_Witness ==
    AgReturned /\ AgHeroBlack /\ Len(moments) >= 1 /\ Len(move_evals) >= 2

\* the positions (0-based) in the moment list of the moments of ply hm
AgMomentsOfPly(hm) ==
    {k \in 0..(Len(moments) - 1) : moments[k + 1].half_move_number = hm}

\* C20: after a completed call the trace holds exactly one entry per
\* mainline ply, half_move = 1..N in order; an entry carries a moment_type
\* tag if and only if a CrucialMoment with that half_move_number was
\* emitted, and its moment_index is the position of that moment in the
\* moment list, which has the same moment_type.
C20_TraceOneEntryPerPly ==
    AgReturned =>
        /\ Len(move_evals) = AgPlies
        /\ \A i \in 1..Len(move_evals) :
              LET entry == move_evals[i]
              IN  /\ entry.half_move = i
                  /\ IsNone(entry.moment_type) <=> AgMomentsOfPly(i) = {}
                  /\ IsNone(entry.moment_type) <=> IsNone(entry.moment_index)
                  /\ ~IsNone(entry.moment_index) =>
                        /\ Val(entry.moment_index) \in AgMomentsOfPly(i)
                        /\ moments[Val(entry.moment_index) + 1].moment_type
                             = Val(entry.moment_type)

\* C21: when the game data is absent or cannot be parsed, the call returns
\* an empty moment list and an empty trace, raises no error and issues no
\* engine query.
C21_NoGameReturnsEmpty ==
    IsNone(game) =>
        /\ pc \in {"start", "returned"}
        /\ moments = <<>>
        /\ move_evals = <<>>
        /\ metadata = <<>>
        /\ queries = <<>>

\* a call without a game returned, with an engine at hand
C21_Witness == AgReturned /\ IsNone(game) /\ engine

\* the pre-move analysis of the current ply carries no principal variation:
\* the "pv" key is absent or its list is empty
AgNoPvBefore == info_before.pv \in {None, Some(0)}

\* C22: a missing principal variation is a data condition, not an error:
\* when the pre-move analysis carries no principal variation (absent or
\* empty) the call raises no error of its own, and a moment flagged at that
\* ply is emitted with best_move_san and best_move_uci "N/A" and an empty
\* best line.
C22_MissingPvIsData ==
    (pc \in {"loop", "raised"} /\ cur.outcome # "none" /\ AgNoPvBefore) =>
        /\ cur.outcome # "index_error"
        /\ cur.outcome = "flagged" =>
              LET m == moments[Len(moments)]
              IN  /\ m.best_move_san = "N/A"
                  /\ m.best_move_uci = "N/A"
                  /\ m.pv_line = 0
                  /\ m.best_line = 0

\* C25: the engine is queried strictly sequentially in game order: the
\* queries issued so far are, in this order, the position before and the
\* position after ply 1, then those of ply 2, and so on; every ply the loop
\* has finished got exactly these two queries, and the positions queried
\* are those reached by replaying the mainline from the start.
C25_QueriesSequential ==
    /\ \A i \in 1..Len(queries) :
          /\ queries[i].ply = (i + 1) \div 2
          /\ queries[i].position = i \div 2
          /\ queries[i].position <= AgPlies
    /\ (pc \in {"loop", "tag", "returned"} /\ ~IsNone(game)) =>
          Len(queries) = 2 * half_move_num

\* a call that went through two plies and returned
C25_Witness == AgReturned /\ half_move_num = 2 /\ Len(queries) = 4

\* C26: classify_tactic treats its inputs as immutable snapshots: when the
\* call returns, on every path, the objects board_after, board_before and
\* refutation_pv hold exactly what was passed in.
C26_InputsUnchanged ==
    ct.called =>
        /\ ct.on_return.board_after = ct.board_after
        /\ ct.on_return.board_before = ct.board_before
        /\ ct.on_return.refutation_pv = ct.refutation_pv

\* the mate branch replayed a whole line of two or more moves
C26_Witness ==
    /\ ct.called
    /\ ct.result = "back_rank_mate"
    /\ Len(ct.refutation_pv) >= 2
    /\ ~IsNone(ct.board_before)

\* the trapped-piece branch was reached and simulated escape moves
C26_WitnessTrapped ==
    /\ ct.called
    /\ CtFromDriver
    /\ ct.result \in {"trapped_piece", "positional"}
    /\ trapped_simulated(push(ct.board_after, ct.refutation_pv[1]), ct.mover_color) # {}

\* the piece on `slider_sq` attacks the piece on `front_sq` along a line it
\* moves on, and the first piece behind `front_sq` on that line is a piece
\* of the same colour as the one on `front_sq`
CtAttacksThrough(board, slider_sq, front_sq) ==
    /\ board.at[slider_sq].piece_type \in {BISHOP, ROOK, QUEEN}
    /\ occupied(board, front_sq)
    /\ attacks(board, slider_sq, front_sq)
    /\ LET behind_sq == scan_behind(board, slider_sq, front_sq)
       IN  /\ ~IsNone(behind_sq)
           /\ board.at[Val(behind_sq)].color = board.at[front_sq].color

\* the squares the pin detector of the call counts as newly pinned
CtNewPins ==
    LET ref_board_before == IF IsNone(ct.board_before) THEN ct.board_after
                            ELSE Val(ct.board_before)
    IN  (_find_absolute_pins(CtBoardCopy, ct.mover_color)
            \ _find_absolute_pins(ref_board_before, ct.mover_color))
        \cup (_find_relative_pins(CtBoardCopy, ~ct.mover_color, ct.mover_color)
                \ _find_relative_pins(ref_board_before, ~ct.mover_color,
                                      ct.mover_color))

\* C27: the skewer and relative-pin detectors count a sliding piece only
\* along lines on which it attacks: the label skewer means that the moved
\* rook or queen attacks a mover piece with another mover piece behind it,
\* and the label pin means that some newly pinned piece is pinned to its
\* king or attacked by an opposing bishop, rook or queen with a mover piece
\* behind it on the line of that attack.
C27_SlidersAttackAlongOwnLines ==
    (CtChain /\ CtFromDriver) =>
        /\ ct.result = "skewer" =>
              \E front \in Squares :
                 /\ CtBoardCopy.at[front].color = ct.mover_color
                 /\ CtAttacksThrough(CtBoardCopy, CtFirstMove.to_square, front)
        /\ ct.result = "pin" =>
              \E front \in CtNewPins :
                 \/ is_pinned(CtBoardCopy, ct.mover_color, front)
                 \/ \E slider_sq \in Squares :
                       /\ CtBoardCopy.at[slider_sq].color = ~ct.mover_color
                       /\ CtAttacksThrough(CtBoardCopy, slider_sq, front)

\* the ply just processed was flagged; its moment is the last of the list
AgJustFlagged == pc = "loop" /\ cur.outcome = "flagged"
AgLastMoment == moments[Len(moments)]

\* the mate distance of the pre-move analysis, from the mover's side
AgBestMateBefore == mate(pov(info_before, cur.mover_color))

\* C28: for every moment of type missed_mate the mate_in field is the
\* length of the mate that was missed: the mate distance of the pre-move
\* analysis, between 1 and 5.
C28_MissedMateLength ==
    (AgJustFlagged /\ AgLastMoment.moment_type = "missed_mate") =>
        /\ is_mate(pov(info_before, cur.mover_color))
        /\ AgBestMateBefore \in 1..MISSED_MATE_MOVES
        /\ AgLastMoment.mate_in = Some(AgBestMateBefore)

\* C29: every moment of type missed_mate has severity critical, eval_after
\* <= 500 and a swing of at least 9500 centipawns.
C29_MissedMateCritical ==
    \A i \in 1..Len(moments) :
        moments[i].moment_type = "missed_mate" =>
            /\ moments[i].severity = "critical"
            /\ moments[i].eval_after <= 500
            /\ moments[i].eval_swing <= -9500

\* a missed mate after which the mover still stands at exactly +500
C29_Witness ==
    /\ AgReturned
    /\ \E i \in 1..Len(moments) :
          /\ moments[i].moment_type = "missed_mate"
          /\ moments[i].eval_after = 500

\* C30: every blunder has eval_swing <= -200, eval_after < -100 and
\* cp_before = eval_after - eval_swing >= -500; every missed_chance has
\* eval_swing <= -200 and -100 <= eval_after <= 500.
C30_BlunderAndMissedChanceRanges ==
    \A i \in 1..Len(moments) :
        LET m == moments[i]
        IN  /\ m.moment_type = "blunder" =>
                  /\ m.eval_swing <= -200
                  /\ m.eval_after < -100
                  /\ m.eval_after - m.eval_swing >= -500
            /\ m.moment_type = "missed_chance" =>
                  /\ m.eval_swing <= -200
                  /\ m.eval_after >= -100
                  /\ m.eval_after <= 500

\* a returned call with a blunder made from exactly -500 and a missed
\* chance ending at exactly +500
C30_Witness ==
    /\ AgReturned
    /\ \E i \in 1..Len(moments) :
          /\ moments[i].moment_type = "blunder"
          /\ moments[i].eval_after - moments[i].eval_swing = -500
    /\ \E i \in 1..Len(moments) :
          /\ moments[i].moment_type = "missed_chance"
          /\ moments[i].eval_after = 500

(***************************************************************************)
(* import_game_to_lichess (api/lichess.py).  A reply of the server to      *)
(* client.games.import_game is the game record, a berserk ResponseError    *)
(* with a status code and a text, or another exception; the text of an     *)
(* error is kept as the set of phrases the code looks for that occur in it.*)
(***************************************************************************)
HTTP_TOO_MANY_REQUESTS == 429
RETRY_SLEEP_SECONDS == 60

ALREADY_IMPORTED == "Game already imported"
TOO_MANY_REQUESTS == "Too Many Requests"

ImportReplies ==
    {[kind |-> "ok", status_code |-> 200, text |-> {}],
     [kind |-> "exception", status_code |-> 0, text |-> {}]}
        \cup {[kind |-> "response_error", status_code |-> c, text |-> t] :
                 c \in {400, HTTP_TOO_MANY_REQUESTS, 500},
                 t \in SUBSET {ALREADY_IMPORTED, TOO_MANY_REQUESTS}}

\* the inner function attempt_import, given the server's reply
attempt_import(reply) ==
    IF reply.kind = "ok" THEN "IMPORTED"
    ELSE IF reply.kind = "response_error"
    THEN IF ALREADY_IMPORTED \in reply.text THEN "DUPLICATE"
         ELSE IF \/ reply.status_code = HTTP_TOO_MANY_REQUESTS
                 \/ TOO_MANY_REQUESTS \in reply.text
         THEN "RATE_LIMIT"
         ELSE "ERROR"
    ELSE "ERROR"

\* retry_status handing the status of the retry back as it is
retry_status_unchanged(status) == status

\* the status returned after the retry
retry_status(status) == IF status = "RATE_LIMIT" THEN "ERROR" ELSE status

ImportEvent(reply) == [event |-> "import", reply |-> reply, seconds |-> 0]
SleepEvent(seconds) == [event |-> "sleep", reply |-> None, seconds |-> seconds]

InitImport ==
    /\ cm = CmIdle
    /\ ct = CtIdle
    /\ DriverIdle
    /\ sy = SyIdle
    /\ im = [pc |-> "start", log |-> <<>>, status |-> "", result |-> ""]

\* status = attempt_import()
FirstAttempt ==
    /\ im.pc = "start"
    /\ \E reply \in ImportReplies :
          im' = [im EXCEPT !.log = Append(@, ImportEvent(reply)),
                           !.status = attempt_import(reply),
                           !.pc = "attempted"]
    /\ UNCHANGED <<cm, ct, driverVars, sy>>

\* not rate-limited: return status
ReturnFirst ==
    /\ im.pc = "attempted"
    /\ im.status # "RATE_LIMIT"
    /\ im' = [im EXCEPT !.result = im.status, !.pc = "returned"]
    /\ UNCHANGED <<cm, ct, driverVars, sy>>

\* rate-limited: time.sleep(60)
SleepBeforeRetry ==
    /\ im.pc = "attempted"
    /\ im.status = "RATE_LIMIT"
    /\ im' = [im EXCEPT !.log = Append(@, SleepEvent(RETRY_SLEEP_SECONDS)),
                        !.pc = "slept"]
    /\ UNCHANGED <<cm, ct, driverVars, sy>>

\* status = attempt_import() again
RetryAttempt ==
    /\ im.pc = "slept"
    /\ \E reply \in ImportReplies :
          im' = [im EXCEPT !.log = Append(@, ImportEvent(reply)),
                           !.status = attempt_import(reply),
                           !.pc = "retried"]
    /\ UNCHANGED <<cm, ct, driverVars, sy>>

\* the return after the retry
ReturnRetry ==
    /\ im.pc = "retried"
    /\ im' = [im EXCEPT !.result = retry_status(im.status), !.pc = "returned"]
    /\ UNCHANGED <<cm, ct, driverVars, sy>>

NextImport ==
    \/ FirstAttempt
    \/ ReturnFirst
    \/ SleepBeforeRetry
    \/ RetryAttempt
    \/ ReturnRetry

SpecImport == InitImport /\ [][NextImport]_vars

\* the import attempts of the call, in order
ImAttempts == SelectSeq(im.log, LAMBDA e : e.event = "import")

\* the server reports the game as already imported
ImReportsDuplicate(reply) ==
    reply.kind = "response_error" /\ ALREADY_IMPORTED \in reply.text

\* the server rate-limits the request: status 429 or its reason phrase,
\* in a reply that does not report the game as already imported
ImRateLimited(reply) ==
    /\ reply.kind = "response_error"
    /\ ~ImReportsDuplicate(reply)
    /\ reply.status_code = 429 \/ TOO_MANY_REQUESTS \in reply.text

\* C23: import_game_to_lichess retries a rate-limited import exactly once:
\* at most two attempts, the second only after a rate-limited first attempt
\* and a sleep of 60 seconds; the result is IMPORTED, DUPLICATE or ERROR,
\* never RATE_LIMIT: ERROR when the retry is rate-limited again, DUPLICATE
\* when the server reports the game as already imported.
C23_RetryOnce ==
    /\ Len(ImAttempts) <= 2
    /\ Len(im.log) >= 2 =>
          /\ im.log[1].event = "import"
          /\ ImRateLimited(im.log[1].reply)
          /\ im.log[2] = SleepEvent(60)
    /\ Len(im.log) >= 3 => (im.log[3].event = "import" /\ Len(im.log) = 3)
    /\ im.pc = "returned" =>
          LET last == ImAttempts[Len(ImAttempts)].reply
          IN  /\ im.result \in {"IMPORTED", "DUPLICATE", "ERROR"}
              /\ ImRateLimited(ImAttempts[1].reply) => Len(ImAttempts) = 2
              /\ (Len(ImAttempts) = 2 /\ ImRateLimited(last)) => im.result = "ERROR"
              /\ ImReportsDuplicate(last) => im.result = "DUPLICATE"
              /\ last.kind = "ok" => im.result = "IMPORTED"

\* a call whose retry was rate-limited again returned
C23_Witness ==
    /\ im.pc = "returned"
    /\ Len(ImAttempts) = 2
    /\ ImRateLimited(ImAttempts[2].reply)

(***************************************************************************)
(* run_sync_pipeline (transfer/sync.py): the import and study steps of the *)
(* game loop and the history file, over several runs.  The archives of a   *)
(* run are kept as the one list of games the nested loops walk through.    *)
(***************************************************************************)
MaxGames == 2
MaxRuns == 2
\* max_imports of a run (MAX_IMPORTS_PER_RUN, scaled to the games of a run)
MaxActionsPerRun == 2

\* a game of an archive: its id, whether url and pgn are present, whether
\* end_time is present, and whether it is a rapid game of 20 moves or more
GamePool ==
    {[id |-> "g1", has_url_pgn |-> TRUE, has_end_time |-> TRUE, qualifies |-> TRUE],
     [id |-> "g2", has_url_pgn |-> TRUE, has_end_time |-> TRUE, qualifies |-> FALSE],
     [id |-> "g3", has_url_pgn |-> FALSE, has_end_time |-> TRUE, qualifies |-> TRUE],
     [id |-> "g4", has_url_pgn |-> TRUE, has_end_time |-> FALSE, qualifies |-> FALSE]}
GameLists == UNION {[1..n -> GamePool] : n \in 0..MaxGames}

\* what import_game_to_lichess returns
ImportStatuses == {"IMPORTED", "DUPLICATE", "ERROR"}

\* the history file at the start: empty, or holding one imported game
HistoryFiles ==
    {[imported_ids |-> ids, studied_ids |-> {}, monthly_studies |-> FALSE] :
        ids \in {{}, {"g1"}}}

\* import_recorded counting a failed import too
import_recorded_always(import_status) == TRUE

\* "if import_status == IMPORTED or import_status == DUPLICATE"
import_recorded(import_status) ==
    import_status = "IMPORTED" \/ import_status = "DUPLICATE"

InitSync ==
    /\ cm = CmIdle
    /\ ct = CtIdle
    /\ DriverIdle
    /\ im = ImIdle
    /\ \E file \in HistoryFiles :
          sy = [pc |-> "load", run |-> 1, file0 |-> file, file |-> file,
                ever_on_file |-> file.imported_ids, history |-> file, imported_ids |-> {}, studied_ids |-> {},
                games |-> <<>>, idx |-> 0, actions_count |-> 0,
                imports |-> <<>>, studies |-> <<>>,
                failed_before |-> {}, failed_now |-> {}, succeeded |-> {}]

\* load_history, the two id sets, and the games of the archives
LoadHistory ==
    /\ sy.pc = "load"
    /\ \E games \in GameLists :
          sy' = [sy EXCEPT !.history = sy.file,
                           !.imported_ids = sy.file.imported_ids,
                           !.studied_ids = sy.file.studied_ids,
                           !.games = games, !.idx = 1, !.actions_count = 0,
                           !.imports = <<>>, !.studies = <<>>,
                           !.pc = "loop"]
    /\ UNCHANGED <<cm, ct, driverVars, im>>

\* the game at hand is new and has no end_time: formatting the log line of
\* the import step raises
EndTimeMissing ==
    /\ sy.games[sy.idx].has_url_pgn
    /\ sy.games[sy.idx].id \notin sy.imported_ids
    /\ ~sy.games[sy.idx].has_end_time

\* the exception leaves run_sync_pipeline: the run ends without a save
ImportLogRaises ==
    /\ sy.pc = "loop"
    /\ sy.idx <= Len(sy.games)
    /\ EndTimeMissing
    /\ sy' = [sy EXCEPT !.pc = "done"]
    /\ UNCHANGED <<cm, ct, driverVars, im>>

\* one pass of the body of "for game in games"
ProcessGame ==
    /\ sy.pc = "loop"
    /\ sy.idx <= Len(sy.games)
    /\ ~EndTimeMissing
    /\ \E import_status \in ImportStatuses, study_found \in BOOLEAN, added \in BOOLEAN :
        LET archive_game == sy.games[sy.idx]
            game_id == archive_game.id
            importing == game_id \notin sy.imported_ids
            recorded == importing /\ import_recorded(import_status)
            failed == importing /\ ~import_recorded(import_status)
            imports1 == IF importing
                        THEN Append(sy.imports, [idx |-> sy.idx,
                                                 id |-> game_id,
                                                 on_file |-> game_id \in sy.ever_on_file,
                                                 status |-> import_status])
                        ELSE sy.imports
            imported1 == IF recorded THEN sy.imported_ids \cup {game_id}
                         ELSE sy.imported_ids
            actions1 == IF recorded THEN sy.actions_count + 1 ELSE sy.actions_count
            to_study == archive_game.qualifies /\ game_id \notin sy.studied_ids
            looked_up == to_study /\ ~sy.history.monthly_studies
            study_saved == looked_up /\ study_found
            history1 == IF study_saved
                        THEN [sy.history EXCEPT !.monthly_studies = TRUE]
                        ELSE sy.history
            file1 == IF study_saved THEN history1 ELSE sy.file
            adding == to_study /\ history1.monthly_studies
            studies1 == IF adding
                        THEN Append(sy.studies, [idx |-> sy.idx, id |-> game_id])
                        ELSE sy.studies
            studied1 == IF adding /\ added THEN sy.studied_ids \cup {game_id}
                        ELSE sy.studied_ids
            actions2 == IF adding /\ added THEN actions1 + 1 ELSE actions1
            history2 == [history1 EXCEPT !.imported_ids = imported1,
                                         !.studied_ids = studied1]
            at_limit == actions2 >= MaxActionsPerRun
            file2 == IF at_limit THEN history2 ELSE file1
        IN  IF ~archive_game.has_url_pgn
            THEN \* "if not url or not pgn: continue"
                 sy' = [sy EXCEPT !.idx = sy.idx + 1]
            ELSE IF failed
            THEN \* the import failed: continue, without the study step
                 sy' = [sy EXCEPT !.imports = imports1, !.idx = sy.idx + 1,
                                  !.failed_now = sy.failed_now \cup {game_id}]
            ELSE sy' = [sy EXCEPT !.imports = imports1,
                                  !.succeeded = IF recorded
                                                THEN sy.succeeded \cup {game_id}
                                                ELSE sy.succeeded,
                                  !.imported_ids = imported1,
                                  !.studies = studies1,
                                  !.studied_ids = studied1,
                                  !.actions_count = actions2,
                                  !.history = history2,
                                  !.file = file2,
                                  !.ever_on_file = sy.ever_on_file \cup file2.imported_ids,
                                  !.idx = sy.idx + 1,
                                  !.pc = IF at_limit THEN "save" ELSE "loop"]
    /\ UNCHANGED <<cm, ct, driverVars, im>>

\* the games are exhausted
GamesDone ==
    /\ sy.pc = "loop"
    /\ sy.idx > Len(sy.games)
    /\ sy' = [sy EXCEPT !.pc = "save"]
    /\ UNCHANGED <<cm, ct, driverVars, im>>

\* the final save_history(history) of the run
SaveHistory ==
    /\ sy.pc = "save"
    /\ sy' = [sy EXCEPT !.file = sy.history,
                         !.ever_on_file = sy.ever_on_file \cup sy.history.imported_ids,
                         !.pc = "done"]
    /\ UNCHANGED <<cm, ct, driverVars, im>>

\* the program is started again later
NextRun ==
    /\ sy.pc = "done"
    /\ sy.run < MaxRuns
    /\ sy' = [sy EXCEPT !.run = sy.run + 1, !.pc = "load",
                         !.failed_before = sy.failed_before \cup sy.failed_now,
                         !.failed_now = {}]
    /\ UNCHANGED <<cm, ct, driverVars, im>>

NextSync ==
    \/ LoadHistory
    \/ ProcessGame
    \/ ImportLogRaises
    \/ GamesDone
    \/ SaveHistory
    \/ NextRun

SpecSync == InitSync /\ [][NextSync]_vars

====
